---------------------------- MODULE Spec2Model ----------------------------
(***************************************************************************)
(* Archive explorer: the archive-to-tree materializer (parseArchive), the  *)
(* search dialog (its list of searchable files, performSearch and the      *)
(* debounce effect), the content reader (getFileContent), formatBytes, and *)
(* the page with its upload form, its open files and its tabbed editor.    *)
(*                                                                         *)
(* Strings are sequences of one-character strings, so that split, trim,    *)
(* startsWith, template concatenation and the collation order are computed *)
(* and not assumed.                                                         *)
(***************************************************************************)
EXTENDS Integers, Sequences, FiniteSets, TLC

VARIABLES
    \* ---- parseArchive (src/components/tabbed-editor.tsx 503-570) ----
    archive,      \* the entries archive.forEach visits, in visiting order
    pc,           \* position inside parseArchive: idle / entries / done
    idx,          \* index of the next entry archive.forEach will visit
    fileTree,     \* the Map<string, FileNode>, as its nodes in insertion order
    rootNodes,    \* the rootNodes array (node references, i.e. paths)
    tree,         \* the value parseArchive returned last
    prevTree,     \* the value returned by the call before the last one (0 or 1 of them)
    calls,        \* number of completed parseArchive calls
    \* ---- one pass of the loop body of performSearch over one file ----
    scanContent,  \* the content getFileContent returned
    scanQuery,    \* searchQuery
    scanPc,       \* ready / scanned
    scanAcc,      \* searchResults and totalMatches
    \* ---- SearchDialog (src/components/search-dialog.tsx 43-182) ----
    textFiles,    \* the memoized list of searchable files (paths)
    fileContent,  \* what getFileContent settles with, per path
    query,        \* useState query
    timer,        \* the pending debounce timeouts: the query each closes over, the
                  \* time left, and whether the last effect run set it
    unchangedFor, \* time since the query was last set, up to the debounce delay
    searches,     \* the performSearch calls waiting at await getFileContent
    results,      \* useState results
    searchStats,  \* useState searchStats
    isSearching,  \* useState isSearching
    readsIssued,  \* number of getFileContent calls made by searches
    searchLog,    \* the searchQuery of every performSearch call, oldest first
    newestOut,    \* what the newest performSearch call published (0 or 1 record)
    \* ---- getFileContent (src/components/tabbed-editor.tsx 572-598) ----
    zipFiles,     \* archive.files: the entries of the archive, by name
    filePath,     \* the argument filePath
    readPc,       \* ready / string / arraybuffer / returned / thrown
    readOut,      \* the returned string, or the message of the thrown error
    \* ---- Home (src/app/page.tsx 20-146) and FileUpload ----
    loadedArchive,\* useState archive: the archive loaded, or none
    archiveFile,  \* useState archiveFile: the file it was loaded from, or none
    pageTree,     \* useState fileTree
    openFiles,    \* useState openFiles: node, content and the archive read
    isLoading,    \* useState isLoading
    highlightLine,\* useState highlightLine; 0 is undefined
    highlightFor, \* the file whose match set highlightLine (the argument file
                  \* of that handleSearchFileSelect call), or the empty tuple
    uploadError,  \* useState error of FileUpload; the empty tuple is null
    loads,        \* the last handleFileSelect call and where it is (0 or 1 record)
    contentReads, \* the selection handlers waiting at await getFileContent
    clearTimers,  \* the pending setTimeout(() => setHighlightLine(undefined))
    loadCount,    \* number of handleFileSelect calls started
    readCount,    \* number of getFileContent calls made by the handlers
    \* ---- TabbedEditor (src/components/tabbed-editor.tsx 104-224) ----
    tabs,         \* useState tabs
    activeTab,    \* useState activeTab; the empty tuple is ""
    editors,      \* the keys of editorsRef.current
    revealed,     \* the last revealLineInCenter call: the tab, the line, and the
                  \* file the line was requested for (0 or 1 record)
    lastSelected, \* the file the user selected in the tree, while that click
                  \* is the last thing that happened; else the empty tuple
    closedTabs,   \* the tabs the user closed and has not selected again since
    \* ---- formatBytes (src/components/tabbed-editor.tsx 429-435) ----
    fmtBytes,     \* the argument bytes, in base 1024, lowest digit first
    fmtPc,        \* ready / returned
    fmtOut        \* the returned string

parseVars == <<archive, pc, idx, fileTree, rootNodes, tree, prevTree, calls>>

scanVars == <<scanContent, scanQuery, scanPc, scanAcc>>

searchVars == <<textFiles, fileContent, query, timer, unchangedFor, searches, results, searchStats,
                isSearching, readsIssued, searchLog, newestOut>>

readVars == <<zipFiles, filePath, readPc, readOut>>

pageVars == <<loadedArchive, archiveFile, pageTree, openFiles, isLoading, highlightLine,
              highlightFor, uploadError, loads, contentReads, clearTimers, loadCount, readCount,
              tabs, activeTab, editors, revealed, lastSelected, closedTabs>>

formatVars == <<fmtBytes, fmtPc, fmtOut>>

vars == <<parseVars, scanVars, searchVars, readVars, pageVars, formatVars>>

(***************************************************************************)
(* Bounds of the model.                                                    *)
(***************************************************************************)
MaxEntries == 3
MaxCalls == 2
MaxTextLen == 4
MaxQueryLen == 2
MaxSearches == 2

(***************************************************************************)
(* Strings as character sequences.                                         *)
(***************************************************************************)
Sep == "/"

LowerCase ==
    <<"a","b","c","d","e","f","g","h","i","j","k","l","m",
      "n","o","p","q","r","s","t","u","v","w","x","y","z">>

UpperCase ==
    <<"A","B","C","D","E","F","G","H","I","J","K","L","M",
      "N","O","P","Q","R","S","T","U","V","W","X","Y","Z">>

IndexIn(c, alphabet) ==
    IF \E i \in 1..Len(alphabet) : alphabet[i] = c
    THEN CHOOSE i \in 1..Len(alphabet) : alphabet[i] = c
    ELSE 0

\* String.prototype.split(sep), sep one character
RECURSIVE SplitBy(_, _)
SplitBy(s, sep) ==
    IF \E k \in 1..Len(s) : s[k] = sep
    THEN LET k == CHOOSE j \in 1..Len(s) :
                      s[j] = sep /\ \A h \in 1..(j - 1) : s[h] # sep
         IN  <<SubSeq(s, 1, k - 1)>> \o SplitBy(SubSeq(s, k + 1, Len(s)), sep)
    ELSE <<s>>

\* relativePath.split("/")
Split(s) == SplitBy(s, Sep)

\* String.prototype.includes("/")
IncludesSep(s) == \E k \in 1..Len(s) : s[k] = Sep

(***************************************************************************)
(* a.name.localeCompare(b.name): the collation order of the names. The     *)
(* primary weights (punctuation before letters, letters in alphabetical    *)
(* order whatever their case) decide first; on a primary tie the case      *)
(* decides, lower case first.                                              *)
(***************************************************************************)
Primary(c) ==
    IF IndexIn(c, LowerCase) > 0 THEN 100 + IndexIn(c, LowerCase)
    ELSE IF IndexIn(c, UpperCase) > 0 THEN 100 + IndexIn(c, UpperCase)
    ELSE IF c = "." THEN 1
    ELSE 2

Tertiary(c) == IF IndexIn(c, UpperCase) > 0 THEN 1 ELSE 0

RECURSIVE CompareKeys(_, _, _)
CompareKeys(ka, kb, i) ==
    IF i > Len(ka) /\ i > Len(kb) THEN 0
    ELSE IF i > Len(ka) THEN -1
    ELSE IF i > Len(kb) THEN 1
    ELSE IF ka[i] < kb[i] THEN -1
    ELSE IF ka[i] > kb[i] THEN 1
    ELSE CompareKeys(ka, kb, i + 1)

PrimaryKeys(s) == [i \in 1..Len(s) |-> Primary(s[i])]

TertiaryKeys(s) == [i \in 1..Len(s) |-> Tertiary(s[i])]

localeCompare(a, b) ==
    LET p == CompareKeys(PrimaryKeys(a), PrimaryKeys(b), 1)
    IN  IF p # 0 THEN p ELSE CompareKeys(TertiaryKeys(a), TertiaryKeys(b), 1)

(***************************************************************************)
(* String operations of the search.                                        *)
(***************************************************************************)
Newline == "\n"

WhiteSpace == {" ", "\t", "\r", "\n"}

\* String.prototype.trim()
RECURSIVE TrimStart(_)
TrimStart(s) == IF s # <<>> /\ s[1] \in WhiteSpace THEN TrimStart(Tail(s)) ELSE s

RECURSIVE TrimEnd(_)
TrimEnd(s) ==
    IF s # <<>> /\ s[Len(s)] \in WhiteSpace THEN TrimEnd(SubSeq(s, 1, Len(s) - 1)) ELSE s

Trim(s) == TrimEnd(TrimStart(s))

\* String.prototype.startsWith(prefix)
StartsWith(s, prefix) ==
    Len(s) >= Len(prefix) /\ SubSeq(s, 1, Len(prefix)) = prefix

\* "[Binary file"
BinaryMarker == <<"[", "B", "i", "n", "a", "r", "y", " ", "f", "i", "l", "e">>

\* "[Unable to read"
UnableMarker == <<"[", "U", "n", "a", "b", "l", "e", " ", "t", "o", " ", "r", "e", "a", "d">>

(***************************************************************************)
(* new RegExp(searchQuery.replace(/[.*+?^${}()|[\]\\]/g, "\\$&"), "gi")    *)
(* and regex.exec. A pattern source is read as a sequence of atoms: "\"    *)
(* and a character is that character, "." is any character, any other      *)
(* character is itself, and "*" after an atom repeats it (greedy).         *)
(***************************************************************************)
\* the character class of the replace
MetaChars == {".", "*", "+", "?", "^", "$", "{", "}", "(", ")", "|", "[", "]", "\\"}

\* "\\$&": the character with a backslash before it
EscapeChar(c) == IF c \in MetaChars THEN <<"\\", c>> ELSE <<c>>

RECURSIVE EscapeQuery(_)
EscapeQuery(q) == IF q = <<>> THEN <<>> ELSE EscapeChar(q[1]) \o EscapeQuery(Tail(q))

\* Mutation: the flag i is lost.
KeepCase(c) == c

\* The flag i: characters are compared by their upper case.
Canonicalize(c) ==
    IF IndexIn(c, LowerCase) > 0 THEN UpperCase[IndexIn(c, LowerCase)] ELSE c

Atom(kind, ch, star) == [kind |-> kind, ch |-> ch, star |-> star]

RECURSIVE ParseAtoms(_, _)
ParseAtoms(src, i) ==
    IF i > Len(src) THEN <<>>
    ELSE LET escaped == src[i] = "\\" /\ i < Len(src)
             width == IF escaped THEN 2 ELSE 1
             kind == IF ~escaped /\ src[i] = "." THEN "any" ELSE "lit"
             ch == IF escaped THEN src[i + 1] ELSE src[i]
             star == i + width <= Len(src) /\ src[i + width] = "*"
         IN  <<Atom(kind, ch, star)>>
                 \o ParseAtoms(src, i + width + (IF star THEN 1 ELSE 0))

\* new RegExp throws a SyntaxError ("nothing to repeat") on a "*" that follows no atom.
RECURSIVE NothingToRepeat(_, _)
NothingToRepeat(src, i) ==
    IF i > Len(src) THEN FALSE
    ELSE IF src[i] = "*" THEN TRUE
    ELSE LET width == IF src[i] = "\\" /\ i < Len(src) THEN 2 ELSE 1
             star == i + width <= Len(src) /\ src[i + width] = "*"
         IN  NothingToRepeat(src, i + width + (IF star THEN 1 ELSE 0))

AtomMatches(atom, c) ==
    IF atom.kind = "any" THEN c # Newline /\ c # "\r"
    ELSE Canonicalize(atom.ch) = Canonicalize(c)

\* The end of the match of atoms k.. at position pos (0-based), or -1.
RECURSIVE MatchAt(_, _, _, _)
RECURSIVE TryStar(_, _, _, _, _)
MatchAt(atoms, k, line, pos) ==
    IF k > Len(atoms) THEN pos
    ELSE IF atoms[k].star
         THEN LET run == CHOOSE n \in 0..(Len(line) - pos) :
                            /\ \A h \in 1..n : AtomMatches(atoms[k], line[pos + h])
                            /\ \/ pos + n = Len(line)
                               \/ ~AtomMatches(atoms[k], line[pos + n + 1])
              IN  TryStar(atoms, k, line, pos, run)
         ELSE IF pos < Len(line) /\ AtomMatches(atoms[k], line[pos + 1])
              THEN MatchAt(atoms, k + 1, line, pos + 1)
              ELSE -1

TryStar(atoms, k, line, pos, n) ==
    IF n < 0 THEN -1
    ELSE LET end == MatchAt(atoms, k + 1, line, pos + n)
         IN  IF end # -1 THEN end ELSE TryStar(atoms, k, line, pos, n - 1)

\* regex.exec(line) with regex.lastIndex = lastIndex: the leftmost match at or
\* after lastIndex, as <<[index, end]>>, or <<>> for null.
RECURSIVE Exec(_, _, _)
Exec(atoms, line, lastIndex) ==
    IF lastIndex > Len(line) THEN <<>>
    ELSE LET end == MatchAt(atoms, 1, line, lastIndex)
         IN  IF end # -1 THEN <<[index |-> lastIndex, end |-> end]>>
             ELSE Exec(atoms, line, lastIndex + 1)

\* while ((match = regex.exec(line)) !== null): exec leaves lastIndex at the
\* end of the match and, on null, at 0, so every line is scanned from 0. The
\* pattern of a searched query is never empty, so no match is empty here; an
\* empty match ends the unrolling.
RECURSIVE ExecLoop(_, _, _)
ExecLoop(atoms, line, lastIndex) ==
    LET match == Exec(atoms, line, lastIndex)
    IN  IF match = <<>> THEN <<>>
        ELSE IF match[1].end = match[1].index THEN match
        ELSE match \o ExecLoop(atoms, line, match[1].end)

\* The body of lines.forEach for one line (index counted from 0 as in the source).
LineMatches(atoms, line, index) ==
    LET found == ExecLoop(atoms, line, 0)
    IN  [k \in 1..Len(found) |->
            [ line       |-> index + 1,
              content    |-> Trim(line),
              matchStart |-> found[k].index,
              matchEnd   |-> found[k].index + (found[k].end - found[k].index) ]]

RECURSIVE ForEachLine(_, _, _)
ForEachLine(atoms, lines, k) ==
    IF k > Len(lines) THEN <<>>
    ELSE LineMatches(atoms, lines[k], k - 1) \o ForEachLine(atoms, lines, k + 1)

\* Mutation: the query is used as the pattern without escaping.
RawSource(searchQuery) == searchQuery

\* The source of the pattern built from the query.
RegExpSource(searchQuery) == EscapeQuery(searchQuery)

\* lines 139-157: the matches of one file's content
MatchesIn(content, searchQuery) ==
    ForEachLine(ParseAtoms(RegExpSource(searchQuery), 1), SplitBy(content, Newline), 1)

\* Mutation: only the second placeholder is tested.
UnableOnly(content) == StartsWith(content, UnableMarker)

\* lines 132-135
IsUnsearchable(content) ==
    StartsWith(content, BinaryMarker) \/ StartsWith(content, UnableMarker)

\* let totalMatches = 0; const searchResults = []
NewAccumulator == [searchResults |-> <<>>, totalMatches |-> 0]

\* Mutation: every scanned file is pushed.
PushesAlways(matches) == TRUE

\* if (matches.length > 0)
HasMatches(matches) == Len(matches) > 0

\* lines 132-161: the rest of the loop body once the content has been read.
\* A SyntaxError of new RegExp is caught by the catch of line 162.
ProcessContent(acc, file, content, searchQuery) ==
    IF IsUnsearchable(content) THEN acc
    ELSE IF NothingToRepeat(RegExpSource(searchQuery), 1) THEN acc
    ELSE LET matches == MatchesIn(content, searchQuery)
         IN  [ searchResults |-> IF HasMatches(matches)
                                 THEN Append(acc.searchResults,
                                             [file |-> file, matches |-> matches])
                                 ELSE acc.searchResults,
               totalMatches  |-> acc.totalMatches + Len(matches) ]

\* String.prototype.slice(start, end) for non-negative arguments
Slice(s, start, end) ==
    LET from == IF start > Len(s) THEN Len(s) ELSE start
        to == IF end > Len(s) THEN Len(s) ELSE end
    IN  IF from >= to THEN <<>> ELSE SubSeq(s, from + 1, to)

\* String.prototype.slice(start)
SliceFrom(s, start) == Slice(s, start, Len(s))

\* lines 192-210: the three parts the result row renders for a match, the
\* middle one highlighted
highlightMatch(content, matchStart, matchEnd) ==
    [ before |-> Slice(content, 0, matchStart),
      match  |-> Slice(content, matchStart, matchEnd),
      after  |-> SliceFrom(content, matchEnd) ]

\* !searchQuery.trim()
IsBlankQuery(searchQuery) == Trim(searchQuery) = <<>>

(***************************************************************************)
(* The parts of the state a specification does not use stay as they are    *)
(* before the component is mounted or the function called.                 *)
(***************************************************************************)
ParseUnused ==
    /\ archive = <<>>
    /\ pc = "idle"
    /\ idx = 1
    /\ fileTree = <<>>
    /\ rootNodes = <<>>
    /\ tree = <<>>
    /\ prevTree = <<>>
    /\ calls = 0

ScanUnused ==
    /\ scanContent = <<>>
    /\ scanQuery = <<>>
    /\ scanPc = "ready"
    /\ scanAcc = NewAccumulator

SearchUnused ==
    /\ textFiles = <<>>
    /\ fileContent = <<>>
    /\ query = <<>>
    /\ timer = {}
    /\ unchangedFor = 0
    /\ searches = {}
    /\ results = <<>>
    /\ searchStats = [files |-> 0, matches |-> 0]
    /\ isSearching = FALSE
    /\ readsIssued = 0
    /\ searchLog = <<>>
    /\ newestOut = <<>>

ReadUnused ==
    /\ zipFiles = {}
    /\ filePath = <<>>
    /\ readPc = "ready"
    /\ readOut = <<>>

PageUnused ==
    /\ loadedArchive = <<>>
    /\ archiveFile = <<>>
    /\ pageTree = <<>>
    /\ openFiles = <<>>
    /\ isLoading = FALSE
    /\ highlightLine = 0
    /\ highlightFor = <<>>
    /\ uploadError = <<>>
    /\ loads = {}
    /\ contentReads = {}
    /\ clearTimers = 0
    /\ loadCount = 0
    /\ readCount = 0
    /\ tabs = <<>>
    /\ activeTab = <<>>
    /\ editors = {}
    /\ revealed = <<>>
    /\ lastSelected = <<>>
    /\ closedTabs = {}

FormatUnused ==
    /\ fmtBytes = <<>>
    /\ fmtPc = "ready"
    /\ fmtOut = <<>>

(***************************************************************************)
(* The loop body of performSearch on one file: every content of at most    *)
(* MaxTextLen characters and every non-blank query of at most MaxQueryLen  *)
(* characters, and the two-line example.                                   *)
(***************************************************************************)
ScanAlphabet == {"a", "b", "B", " ", Newline}

QueryAlphabet == {"a", "b", "B", " "}

\* "foo bar\nBAR foo bar"
ExampleText ==
    <<"f", "o", "o", " ", "b", "a", "r", Newline,
      "B", "A", "R", " ", "f", "o", "o", " ", "b", "a", "r">>

\* "bar"
ExampleQuery == <<"b", "a", "r">>

ScanTexts ==
    UNION { [1..n -> ScanAlphabet] : n \in 0..MaxTextLen } \cup {ExampleText}

ScanQueries ==
    { q \in UNION { [1..n -> QueryAlphabet] : n \in 1..MaxQueryLen } : ~IsBlankQuery(q) }
        \cup {ExampleQuery}

\* Texts and queries with the characters that are special in a pattern.
LiteralAlphabet == {"a", "b", ".", "*"}

\* "a.b*"
LiteralQuery == <<"a", ".", "b", "*">>

\* "aXbYYY"
LiteralMiss == <<"a", "X", "b", "Y", "Y", "Y">>

LiteralTexts ==
    UNION { [1..n -> LiteralAlphabet] : n \in 0..MaxTextLen } \cup {LiteralQuery, LiteralMiss}

LiteralQueries ==
    UNION { [1..n -> LiteralAlphabet] : n \in 1..MaxQueryLen } \cup {LiteralQuery}

\* the path of the file being scanned: "a.txt"
ScannedFile == <<"a", ".", "t", "x", "t">>

InitScan ==
    /\ \/ /\ scanContent \in ScanTexts
          /\ scanQuery \in ScanQueries
       \/ /\ scanContent \in LiteralTexts
          /\ scanQuery \in LiteralQueries
    /\ scanPc = "ready"
    /\ scanAcc = NewAccumulator
    /\ ParseUnused
    /\ SearchUnused
    /\ ReadUnused
    /\ PageUnused
    /\ FormatUnused

\* lines 132-161 for the content of one file
ScanFile ==
    /\ scanPc = "ready"
    /\ scanAcc' = ProcessContent(scanAcc, ScannedFile, scanContent, scanQuery)
    /\ scanPc' = "scanned"
    /\ UNCHANGED <<scanContent, scanQuery, parseVars, searchVars, readVars, pageVars, formatVars>>

NextScan == ScanFile

SpecScan == InitScan /\ [][NextScan]_vars

(***************************************************************************)
(* The archives. An entry is what archive.forEach hands to the callback:   *)
(* its relative path, zipEntry.dir and zipEntry._data.uncompressedSize.    *)
(* The zip library marks an entry as a directory exactly when its name     *)
(* ends with the separator.                                                *)
(***************************************************************************)
Entry(path, dir, size) == [path |-> path, dir |-> dir, size |-> size]

EntryPool ==
    { Entry(<<"a", "/", "b", ".", "t", "x", "t">>, FALSE, 3),            \* a/b.txt
      Entry(<<"a", "/", "c", "/", "d", ".", "t", "x", "t">>, FALSE, 7),  \* a/c/d.txt
      Entry(<<"a", "/">>, TRUE, 0),                                      \* a/
      Entry(<<"a">>, FALSE, 2),                                          \* a
      Entry(<<"B">>, FALSE, 0),                                          \* B
      Entry(<<"/">>, TRUE, 0),                                           \* /
      Entry(<<>>, FALSE, 4) }                                            \* (empty name)

\* The entry lists of at most MaxEntries entries: the names of an archive are
\* the keys of one object, so no name occurs twice.
Archives ==
    UNION { { a \in [1..n -> EntryPool] : \A i, j \in 1..n : i # j => a[i] # a[j] }
            : n \in 0..MaxEntries }

(***************************************************************************)
(* FileNode. An optional field is a flag and a value: hasChildren/children *)
(* (children?: FileNode[]) and hasSize/size (size?: number). In the Map    *)
(* a children array holds references to nodes of the Map, written as their *)
(* paths; in the returned tree it holds the rebuilt child nodes.           *)
(***************************************************************************)
NewNode(part, currentPath, isDirectory, uncompressedSize) ==
    [ name        |-> part,
      path        |-> currentPath,
      isDirectory |-> isDirectory,
      hasChildren |-> isDirectory,
      children    |-> <<>>,
      hasSize     |-> ~isDirectory,
      size        |-> IF isDirectory THEN 0 ELSE uncompressedSize ]

\* new Map()
NewFileTree == <<>>

\* fileTree.has(path)
Has(ft, path) == \E k \in 1..Len(ft) : ft[k].path = path

IndexOfPath(ft, path) == CHOOSE k \in 1..Len(ft) : ft[k].path = path

\* fileTree.get(path)
Get(ft, path) == ft[IndexOfPath(ft, path)]

\* Mutation: only a directory marker makes a directory (the intermediate test is lost).
IsDirectoryMarkerOnly(i, nparts, dir) == dir

\* const isDirectory = i < parts.length - 1 || zipEntry.dir  (i counted from 1 here)
IsDirectorySegment(i, nparts, dir) == i < nparts \/ dir

\* currentPath = currentPath ? `${currentPath}/${part}` : part
JoinPath(currentPath, part) ==
    IF currentPath # <<>> THEN currentPath \o <<Sep>> \o part ELSE part

\* Mutation: the has() guard is lost, every walked prefix makes a node.
AlwaysMaterializes(ft, currentPath) == TRUE

\* if (!fileTree.has(currentPath)) guards the creation of a node
NotYetMaterialized(ft, currentPath) == ~Has(ft, currentPath)

\* "Add to parent's children": the node is already in the Map
LinkToParent(ft, parentPath, currentPath) ==
    IF parentPath # <<>> /\ Has(ft, parentPath)
    THEN LET p == IndexOfPath(ft, parentPath)
             parent == ft[p]
         IN  IF parent.hasChildren
                /\ ~\E c \in 1..Len(parent.children) : parent.children[c] = currentPath
             THEN [ft EXCEPT ![p].children = Append(@, currentPath)]
             ELSE ft
    ELSE ft

\* Mutation: empty parts are not skipped.
SkipsNoPart(part) == FALSE

\* if (part === "") continue;
SkipsPart(part) == part = <<>>

\* The for loop over the parts of one entry, from part i on.
RECURSIVE WalkParts(_, _, _, _, _)
WalkParts(ft, parts, i, currentPath, zipEntry) ==
    IF i > Len(parts) THEN ft
    ELSE IF SkipsPart(parts[i]) THEN WalkParts(ft, parts, i + 1, currentPath, zipEntry)
    ELSE LET parentPath == currentPath
             nextPath == JoinPath(currentPath, parts[i])
         IN  IF NotYetMaterialized(ft, nextPath)
             THEN LET isDirectory == IsDirectorySegment(i, Len(parts), zipEntry.dir)
                      node == NewNode(parts[i], nextPath, isDirectory, zipEntry.size)
                      withNode == Append(ft, node)
                  IN  WalkParts(LinkToParent(withNode, parentPath, nextPath),
                                parts, i + 1, nextPath, zipEntry)
             ELSE WalkParts(ft, parts, i + 1, nextPath, zipEntry)

\* The callback of archive.forEach for one entry.
AddEntry(ft, zipEntry) == WalkParts(ft, Split(zipEntry.path), 1, <<>>, zipEntry)

\* Mutation: the roots array outlives the call.
LeftoverRootNodes == rootNodes

\* const rootNodes: FileNode[] = []
NewRootNodes == <<>>

\* fileTree.forEach: push the nodes whose path holds no separator, in Map order
RECURSIVE CollectRoots(_, _, _)
CollectRoots(roots, ft, k) ==
    IF k > Len(ft) THEN roots
    ELSE CollectRoots(IF ~IncludesSep(ft[k].path) THEN Append(roots, ft[k].path) ELSE roots,
                      ft, k + 1)

\* Mutation: the comparator without its two directory tests.
CompareNodesByNameOnly(a, b) == localeCompare(a.name, b.name)

\* The comparator of sortNodes.
CompareNodes(a, b) ==
    IF a.isDirectory /\ ~b.isDirectory THEN -1
    ELSE IF ~a.isDirectory /\ b.isDirectory THEN 1
    ELSE localeCompare(a.name, b.name)

\* Array.prototype.sort(compare): a stable sort of the node references.
RECURSIVE InsertNode(_, _, _, _)
InsertNode(ft, sorted, x, k) ==
    IF k > Len(sorted) THEN Append(sorted, x)
    ELSE IF CompareNodes(Get(ft, x), Get(ft, sorted[k])) < 0
         THEN SubSeq(sorted, 1, k - 1) \o <<x>> \o SubSeq(sorted, k, Len(sorted))
         ELSE InsertNode(ft, sorted, x, k + 1)

RECURSIVE SortRefs(_, _, _, _)
SortRefs(ft, nodes, k, sorted) ==
    IF k > Len(nodes) THEN sorted
    ELSE SortRefs(ft, nodes, k + 1, InsertNode(ft, sorted, nodes[k], 1))

\* Mutation: every rebuilt node gets a children list.
RebuildsChildrenAlways(node) == TRUE

\* children: node.children ? sortNodes(node.children) : undefined
RebuildsChildren(node) == node.hasChildren

\* sortNodes: sort, then rebuild every node with its children sorted.
RECURSIVE sortNodes(_, _)
sortNodes(ft, nodes) ==
    LET sorted == SortRefs(ft, nodes, 1, <<>>)
    IN  [k \in 1..Len(sorted) |->
            LET node == Get(ft, sorted[k])
            IN  [node EXCEPT
                    !.hasChildren = RebuildsChildren(node),
                    !.children = IF RebuildsChildren(node)
                                 THEN sortNodes(ft, node.children)
                                 ELSE <<>>]]

\* parseArchive as a function of the entry list.
RECURSIVE AddEntries(_, _, _)
AddEntries(ft, entries, k) ==
    IF k > Len(entries) THEN ft
    ELSE AddEntries(AddEntry(ft, entries[k]), entries, k + 1)

ParseArchive(entries) ==
    LET ft == AddEntries(NewFileTree, entries, 1)
    IN  sortNodes(ft, CollectRoots(NewRootNodes, ft, 1))

(***************************************************************************)
(* parseArchive as steps.                                                  *)
(***************************************************************************)
InitParse ==
    /\ archive \in Archives
    /\ pc = "idle"
    /\ idx = 1
    /\ fileTree = <<>>
    /\ rootNodes = <<>>
    /\ tree = <<>>
    /\ prevTree = <<>>
    /\ calls = 0
    /\ ScanUnused
    /\ SearchUnused
    /\ ReadUnused
    /\ PageUnused
    /\ FormatUnused

\* lines 504-506: the archive is loaded and a new Map is made
ParseStart ==
    /\ pc \in {"idle", "done"}
    /\ calls < MaxCalls
    /\ pc' = "entries"
    /\ idx' = 1
    /\ fileTree' = NewFileTree
    /\ UNCHANGED <<archive, rootNodes, tree, prevTree, calls>>
    /\ UNCHANGED <<scanVars, searchVars, readVars, pageVars, formatVars>>

\* lines 509-545: archive.forEach calls the callback for the next entry
ParseEntry ==
    /\ pc = "entries"
    /\ idx <= Len(archive)
    /\ fileTree' = AddEntry(fileTree, archive[idx])
    /\ idx' = idx + 1
    /\ UNCHANGED <<archive, pc, rootNodes, tree, prevTree, calls>>
    /\ UNCHANGED <<scanVars, searchVars, readVars, pageVars, formatVars>>

\* lines 547-569: the roots are collected, sorted (in place) and the rebuilt tree returned
ParseReturn ==
    /\ pc = "entries"
    /\ idx > Len(archive)
    /\ LET roots == CollectRoots(NewRootNodes, fileTree, 1)
       IN  /\ rootNodes' = SortRefs(fileTree, roots, 1, <<>>)
           /\ tree' = sortNodes(fileTree, roots)
    /\ prevTree' = IF calls >= 1 THEN <<tree>> ELSE <<>>
    /\ calls' = calls + 1
    /\ pc' = "done"
    /\ UNCHANGED <<archive, idx, fileTree>>
    /\ UNCHANGED <<scanVars, searchVars, readVars, pageVars, formatVars>>

NextParse == ParseStart \/ ParseEntry \/ ParseReturn

SpecParse == InitParse /\ [][NextParse]_vars

(***************************************************************************)
(* SearchDialog: the searchable files of the tree (textFiles, a memo of    *)
(* the fileTree prop). A node reference is written as the node's path.     *)
(***************************************************************************)
\* String.prototype.toLowerCase
ToLowerChar(c) ==
    IF IndexIn(c, UpperCase) > 0 THEN LowerCase[IndexIn(c, UpperCase)] ELSE c

toLowerCase(s) == [i \in 1..Len(s) |-> ToLowerChar(s[i])]

\* String.prototype.includes(word)
Includes(s, word) ==
    \E p \in 0..(Len(s) - Len(word)) : SubSeq(s, p + 1, p + Len(word)) = word

\* filename.split(".").pop()?.toLowerCase() || ""
getFileExtension(filename) ==
    LET parts == SplitBy(filename, ".")
    IN  toLowerCase(parts[Len(parts)])

\* lines 57-98
textExtensions ==
    { <<"j", "s">>,
      <<"j", "s", "x">>,
      <<"t", "s">>,
      <<"t", "s", "x">>,
      <<"j", "a", "v", "a">>,
      <<"k", "t">>,
      <<"p", "y">>,
      <<"r", "b">>,
      <<"p", "h", "p">>,
      <<"c", "p", "p">>,
      <<"c">>,
      <<"c", "s">>,
      <<"g", "o">>,
      <<"r", "s">>,
      <<"h", "t", "m", "l">>,
      <<"h", "t", "m">>,
      <<"x", "m", "l">>,
      <<"c", "s", "s">>,
      <<"s", "c", "s", "s">>,
      <<"s", "a", "s", "s">>,
      <<"l", "e", "s", "s">>,
      <<"j", "s", "o", "n">>,
      <<"y", "a", "m", "l">>,
      <<"y", "m", "l">>,
      <<"t", "o", "m", "l">>,
      <<"m", "d">>,
      <<"t", "x", "t">>,
      <<"l", "o", "g">>,
      <<"i", "n", "i">>,
      <<"c", "f", "g">>,
      <<"c", "o", "n", "f">>,
      <<"p", "r", "o", "p", "e", "r", "t", "i", "e", "s">>,
      <<"g", "r", "a", "d", "l", "e">>,
      <<"s", "q", "l">>,
      <<"s", "h">>,
      <<"b", "a", "s", "h">>,
      <<"d", "o", "c", "k", "e", "r", "f", "i", "l", "e">>,
      <<"m", "a", "k", "e", "f", "i", "l", "e">>,
      <<"g", "i", "t", "i", "g", "n", "o", "r", "e">>,
      <<"r", "e", "a", "d", "m", "e">> }

Readme == <<"r", "e", "a", "d", "m", "e">>

License == <<"l", "i", "c", "e", "n", "s", "e">>

Changelog == <<"c", "h", "a", "n", "g", "e", "l", "o", "g">>

\* Mutation: only the extension is tested.
ExtensionListed(name) == getFileExtension(name) \in textExtensions

\* lines 100-105
IsTextFile(name) ==
    \/ getFileExtension(name) \in textExtensions
    \/ Includes(toLowerCase(name), Readme)
    \/ Includes(toLowerCase(name), License)
    \/ Includes(toLowerCase(name), Changelog)

\* lines 49-112
RECURSIVE collectTextFiles(_)
collectTextFiles(nodes) ==
    IF nodes = <<>> THEN <<>>
    ELSE LET node == Head(nodes)
             files == IF node.isDirectory /\ node.hasChildren
                      THEN collectTextFiles(node.children)
                      ELSE IF ~node.isDirectory /\ IsTextFile(node.name)
                           THEN <<node.path>>
                           ELSE <<>>
         IN  files \o collectTextFiles(Tail(nodes))

\* The entries the trees given to the dialog are parsed from.
CollectPool ==
    { Entry(<<"a", ".", "j", "s">>, FALSE, 3),
      Entry(<<"d", "/", "A", ".", "T", "X", "T">>, FALSE, 1),
      Entry(<<"x", ".", "p", "n", "g">>, FALSE, 9),
      Entry(<<"R", "E", "A", "D", "M", "E">>, FALSE, 2),
      Entry(<<"d", "/", "L", "i", "c", "e", "n", "s", "e", ".", "b", "i", "n">>, FALSE, 5),
      Entry(<<"M", "a", "k", "e", "f", "i", "l", "e">>, FALSE, 4),
      Entry(<<"l", "i", "b", ".", "j", "s", "/", "n", "o", "t", "e", "s">>, FALSE, 6),
      Entry(<<".", "g", "i", "t", "i", "g", "n", "o", "r", "e">>, FALSE, 1),
      Entry(<<"j", "s">>, FALSE, 0),
      Entry(<<"x", ".">>, FALSE, 7),
      Entry(<<"r", "e", "a", "d", "m", "e", "/">>, TRUE, 0),
      Entry(<<"d", "o", "c", "s", ".", "m", "d", "/">>, TRUE, 0) }

CollectArchives ==
    UNION { { a \in [1..n -> CollectPool] : \A i, j \in 1..n : i # j => a[i] # a[j] }
            : n \in 0..MaxEntries }

CollectTrees == { ParseArchive(a) : a \in CollectArchives }

\* No parseArchive call is under way; the tree is the fileTree prop.
ParseIdle ==
    /\ archive = <<>>
    /\ pc = "idle"
    /\ idx = 1
    /\ fileTree = <<>>
    /\ rootNodes = <<>>
    /\ prevTree = <<>>
    /\ calls = 0

SearchIdle ==
    /\ fileContent = <<>>
    /\ query = <<>>
    /\ timer = {}
    /\ unchangedFor = 0
    /\ searches = {}
    /\ results = <<>>
    /\ searchStats = [files |-> 0, matches |-> 0]
    /\ isSearching = FALSE
    /\ readsIssued = 0
    /\ searchLog = <<>>
    /\ newestOut = <<>>

\* The first render: textFiles is computed from the fileTree prop.
InitCollect ==
    /\ tree \in CollectTrees
    /\ textFiles = collectTextFiles(tree)
    /\ ParseIdle
    /\ SearchIdle
    /\ ScanUnused
    /\ ReadUnused
    /\ PageUnused
    /\ FormatUnused

\* The page sets another tree: the dialog renders again and the memo, which
\* depends on fileTree, is computed again.
SetFileTree(t) ==
    /\ t # tree
    /\ tree' = t
    /\ textFiles' = collectTextFiles(t)
    /\ UNCHANGED <<archive, pc, idx, fileTree, rootNodes, prevTree, calls>>
    /\ UNCHANGED <<fileContent, query, timer, unchangedFor, searches, results,
                   searchStats, isSearching, readsIssued, searchLog, newestOut>>
    /\ UNCHANGED <<scanVars, readVars, pageVars, formatVars>>

NextCollect == \E t \in CollectTrees : SetFileTree(t)

SpecCollect == InitCollect /\ [][NextCollect]_vars

(***************************************************************************)
(* SearchDialog: the debounce effect and performSearch. A performSearch    *)
(* call runs to its first await when the timeout fires; every settled      *)
(* getFileContent resumes it up to the next await or to its end.           *)
(***************************************************************************)
\* The archive whose tree the dialog is given: b.md, x.png, d/a.txt
SearchArchive ==
    << Entry(<<"b", ".", "m", "d">>, FALSE, 5),
       Entry(<<"x", ".", "p", "n", "g">>, FALSE, 9),
       Entry(<<"d", "/", "a", ".", "t", "x", "t">>, FALSE, 3) >>

SearchTree == ParseArchive(SearchArchive)

\* "d/a.txt" and "b.md"
SearchFiles == collectTextFiles(SearchTree)

\* What getFileContent(file.path) settles with: a content, or a rejection.
Outcome(ok, content) == [ok |-> ok, content |-> content]

SearchOutcomes ==
    { Outcome(TRUE, <<"a", " ", "b", Newline, "B">>),        \* "a b\nB"
      Outcome(TRUE, <<"b">>),                                \* "b"
      Outcome(TRUE, BinaryMarker \o <<" ", "a">>),           \* "[Binary file a"
      Outcome(FALSE, <<>>) }                                 \* throws

\* What the user types into the input: "", " ", "a", "b"
SearchQueries == { <<>>, <<" ">>, <<"a">>, <<"b">> }

NoStats == [files |-> 0, matches |-> 0]

\* setTimeout(..., 300)
DebounceMs == 300

\* The step of the clock.
TickMs == 100

\* setTimeout(() => performSearch(query), 300) in the effect run for query q
Timeout(q) == [query |-> q, due |-> DebounceMs, current |-> TRUE]

\* Mutation: the cleanup clears nothing.
KeepsTimeout(pending) == pending

\* The cleanup of the last effect run: clearTimeout(timeoutId)
clearTimeout(pending) == { t \in pending : ~t.current }

\* A timeout the cleanup has left pending belongs to no effect run any more.
Superseded(pending) == { [t EXCEPT !.current = FALSE] : t \in pending }

InitSearch ==
    /\ tree \in {SearchTree, <<>>}
    /\ textFiles = collectTextFiles(tree)
    /\ fileContent \in [1..Len(textFiles) -> SearchOutcomes]
    /\ query = <<>>
    /\ timer = {Timeout(query)}          \* the effect runs on mount
    /\ unchangedFor = 0
    /\ searches = {}
    /\ results = <<>>
    /\ searchStats = NoStats
    /\ isSearching = FALSE
    /\ readsIssued = 0
    /\ searchLog = <<>>
    /\ newestOut = <<>>
    /\ ParseIdle
    /\ ScanUnused
    /\ ReadUnused
    /\ PageUnused
    /\ FormatUnused

\* onChange / the clear button: setQuery(q); the effect's cleanup clears the
\* pending timeout and the effect sets a new one closing over q.
SetQuery(q) ==
    /\ q # query
    /\ query' = q
    /\ timer' = Superseded(clearTimeout(timer)) \cup {Timeout(q)}
    /\ unchangedFor' = 0
    /\ UNCHANGED <<textFiles, fileContent, searches, results, searchStats, isSearching,
                   readsIssued, searchLog, newestOut>>
    /\ UNCHANGED <<parseVars, scanVars, readVars, pageVars, formatVars>>

\* Time passes while a timeout is pending.
Tick ==
    /\ \E t \in timer : t.due > 0
    /\ timer' = { [t EXCEPT !.due = IF t.due > TickMs THEN t.due - TickMs ELSE 0]
                  : t \in timer }
    /\ unchangedFor' = IF unchangedFor + TickMs < DebounceMs
                       THEN unchangedFor + TickMs ELSE DebounceMs
    /\ UNCHANGED <<textFiles, fileContent, query, searches, results, searchStats,
                   isSearching, readsIssued, searchLog, newestOut>>
    /\ UNCHANGED <<parseVars, scanVars, readVars, pageVars, formatVars>>

\* Mutation: the test of the trimmed query is lost.
IsEmptySearchNoTrim(searchQuery, files) == files = <<>>

\* if (!searchQuery.trim() || textFiles.length === 0)
IsEmptySearch(searchQuery, files) == IsBlankQuery(searchQuery) \/ files = <<>>

\* Mutation: the match counter is set to the number of results.
PublishedByFiles(acc) ==
    [ results |-> acc.searchResults,
      stats   |-> [files |-> Len(acc.searchResults), matches |-> Len(acc.searchResults)] ]

\* lines 167-168
Published(acc) ==
    [ results |-> acc.searchResults,
      stats   |-> [files |-> Len(acc.searchResults), matches |-> acc.totalMatches] ]

\* Mutation: the list is walked from its end.
LastFile(files) == Len(files)

\* for (const file of textFiles): the position of the first file read
FirstFile(files) == 1

\* The timeout t fires: performSearch(query) runs to its return (lines
\* 118-122) or to the first await getFileContent (lines 124-131).
TimerFire(t) ==
    /\ t \in timer
    /\ t.due = 0
    /\ Len(searchLog) < MaxSearches
    /\ timer' = timer \ {t}
    /\ searchLog' = Append(searchLog, t.query)
    /\ IF IsEmptySearch(t.query, textFiles)
       THEN /\ results' = <<>>
            /\ searchStats' = NoStats
            /\ newestOut' = <<Published(NewAccumulator)>>
            /\ UNCHANGED <<searches, isSearching, readsIssued>>
       ELSE /\ isSearching' = TRUE
            /\ searches' = searches \cup
                  { [ id |-> Len(searchLog) + 1, searchQuery |-> t.query,
                      at |-> FirstFile(textFiles), acc |-> NewAccumulator ] }
            /\ readsIssued' = readsIssued + 1
            /\ newestOut' = <<>>
            /\ UNCHANGED <<results, searchStats>>
    /\ UNCHANGED <<textFiles, fileContent, query, unchangedFor>>
    /\ UNCHANGED <<parseVars, scanVars, readVars, pageVars, formatVars>>

\* Mutation: a rejected read leaves the loop.
RejectionEndsLoop(outcome) == ~outcome.ok

\* The await of line 131 is inside the try of line 130, so a rejection is
\* caught at line 162 and none reaches the catch of line 169.
ReachesOuterCatch(outcome) == FALSE

\* The awaited getFileContent of search s settles: the rest of the loop body
\* runs (a rejection is caught at line 162), then either the next file is
\* read or the loop ends and lines 167-172 publish. An error that left the
\* loop would be logged at line 170 and line 172 would run.
ReadSettle(s) ==
    /\ s \in searches
    /\ LET outcome == fileContent[s.at]
           acc == IF outcome.ok
                  THEN ProcessContent(s.acc, textFiles[s.at], outcome.content, s.searchQuery)
                  ELSE s.acc
       IN  IF ReachesOuterCatch(outcome)
           THEN /\ searches' = searches \ {s}
                /\ isSearching' = FALSE
                /\ UNCHANGED <<results, searchStats, readsIssued, newestOut>>
           ELSE IF s.at < Len(textFiles)
           THEN /\ searches' = (searches \ {s}) \cup {[s EXCEPT !.at = s.at + 1, !.acc = acc]}
                /\ readsIssued' = readsIssued + 1
                /\ UNCHANGED <<results, searchStats, isSearching, newestOut>>
           ELSE /\ searches' = searches \ {s}
                /\ results' = Published(acc).results
                /\ searchStats' = Published(acc).stats
                /\ isSearching' = FALSE
                /\ newestOut' = IF s.id = Len(searchLog) THEN <<Published(acc)>> ELSE newestOut
                /\ UNCHANGED readsIssued
    /\ UNCHANGED <<textFiles, fileContent, query, timer, unchangedFor, searchLog>>
    /\ UNCHANGED <<parseVars, scanVars, readVars, pageVars, formatVars>>

NextSearch ==
    \/ \E q \in SearchQueries : SetQuery(q)
    \/ Tick
    \/ \E t \in timer : TimerFire(t)
    \/ \E s \in searches : ReadSettle(s)

SpecSearch == InitSearch /\ [][NextSearch]_vars

(***************************************************************************)
(* getFileContent. The archive is the table archive.files; an entry says   *)
(* what its async("string") and its async("arraybuffer") settle with.      *)
(***************************************************************************)
Digits == <<"0", "1", "2", "3", "4", "5", "6", "7", "8", "9">>

\* Number.prototype.toString of a non-negative integer
RECURSIVE NatToString(_)
NatToString(n) ==
    IF n < 10 THEN <<Digits[n + 1]>>
    ELSE NatToString(n \div 10) \o NatToString(n % 10)

\* const k = 1024
K == 1024

\* A byte count is written in base k, lowest digit first and without leading
\* zeros (0 is the empty sequence), so that counts of a terabyte and more
\* stay within the integers of the model.
RECURSIVE ToBase1024(_)
ToBase1024(n) == IF n = 0 THEN <<>> ELSE <<n % K>> \o ToBase1024(n \div K)

\* const sizes = ["Bytes", "KB", "MB", "GB"]
sizes == << <<"B", "y", "t", "e", "s">>, <<"K", "B">>, <<"M", "B">>, <<"G", "B">> >>

\* Math.floor(Math.log(bytes) / Math.log(k)) for bytes >= 1: one less than
\* the number of base-k digits
FloorLog(bytes) == Len(bytes) - 1

\* The integer part of 200 times the fraction 0.d1 d2 ... in base k, the
\* digits given lowest first.
RECURSIVE Floor200(_)
Floor200(digits) ==
    IF digits = <<>> THEN 0
    ELSE (200 * digits[Len(digits)] + Floor200(SubSeq(digits, 1, Len(digits) - 1))) \div K

\* parseFloat((bytes / Math.pow(k, i)).toFixed(2)) as a string: the quotient
\* is rounded to hundredths (half up) and written without trailing zeros.
FixedTwo(bytes, i) ==
    LET hundredths == 100 * bytes[i + 1] + ((Floor200(SubSeq(bytes, 1, i)) + 1) \div 2)
        whole == hundredths \div 100
        frac == hundredths % 100
    IN  NatToString(whole) \o
           (IF frac = 0 THEN <<>>
            ELSE IF frac % 10 = 0 THEN <<".">> \o NatToString(frac \div 10)
            ELSE <<".">> \o NatToString(frac \div 10) \o NatToString(frac % 10))

\* String(sizes[i]) for an index past the end of sizes
Undefined == <<"u", "n", "d", "e", "f", "i", "n", "e", "d">>

\* lines 429-435; sizes[i] is undefined from index 4 on
formatBytes(bytes) ==
    IF bytes = <<>> THEN <<"0", " ", "B", "y", "t", "e", "s">>
    ELSE LET i == FloorLog(bytes)
         IN  FixedTwo(bytes, i) \o <<" ">> \o
                (IF i < Len(sizes) THEN sizes[i + 1] ELSE Undefined)

Base64Alphabet ==
    << "A", "B", "C", "D", "E", "F", "G", "H", "I", "J", "K", "L", "M", "N", "O", "P",
       "Q", "R", "S", "T", "U", "V", "W", "X", "Y", "Z", "a", "b", "c", "d", "e", "f",
       "g", "h", "i", "j", "k", "l", "m", "n", "o", "p", "q", "r", "s", "t", "u", "v",
       "w", "x", "y", "z", "0", "1", "2", "3", "4", "5", "6", "7", "8", "9", "+", "/" >>

\* btoa of the string whose character codes are the given bytes
RECURSIVE btoa(_)
btoa(bytes) ==
    IF bytes = <<>> THEN <<>>
    ELSE LET b1 == bytes[1]
             b2 == IF Len(bytes) >= 2 THEN bytes[2] ELSE 0
             b3 == IF Len(bytes) >= 3 THEN bytes[3] ELSE 0
             c1 == Base64Alphabet[(b1 \div 4) + 1]
             c2 == Base64Alphabet[((b1 % 4) * 16 + (b2 \div 16)) + 1]
             c3 == IF Len(bytes) >= 2
                   THEN Base64Alphabet[((b2 % 16) * 4 + (b3 \div 64)) + 1] ELSE "="
             c4 == IF Len(bytes) >= 3 THEN Base64Alphabet[(b3 % 64) + 1] ELSE "="
         IN  <<c1, c2, c3, c4>> \o
                (IF Len(bytes) > 3 THEN btoa(SubSeq(bytes, 4, Len(bytes))) ELSE <<>>)

\* lines 591-593: the template literal
BinaryReport(bytes) ==
    <<"[", "B", "i", "n", "a", "r", "y", " ", "f", "i", "l", "e", " ", "-", " ">> \o formatBytes(ToBase1024(Len(bytes))) \o
        <<"]">> \o <<Newline, Newline>> \o <<"B", "a", "s", "e", "6", "4", " ", "c", "o", "n", "t", "e", "n", "t", ":">> \o <<Newline>> \o btoa(bytes)

\* "[Unable to read file content]"
UnableText == <<"[", "U", "n", "a", "b", "l", "e", " ", "t", "o", " ", "r", "e", "a", "d", " ", "f", "i", "l", "e", " ", "c", "o", "n", "t", "e", "n", "t", "]">>

\* "File not found"
NotFoundMessage == <<"F", "i", "l", "e", " ", "n", "o", "t", " ", "f", "o", "u", "n", "d">>

\* An entry of archive.files: its name, whether it is a directory, and what
\* its two reads settle with.
ZipEntry(name, dir, stringOk, content, bufferOk, bytes) ==
    [ name |-> name, dir |-> dir,
      string |-> [ok |-> stringOk, content |-> content],
      arraybuffer |-> [ok |-> bufferOk, bytes |-> bytes] ]

\* "a.txt"
TextName == <<"a", ".", "t", "x", "t">>

\* "d/"
DirName == <<"d", "/">>

\* "b.bin"
BinName == <<"b", ".", "b", "i", "n">>

\* The states of the entry a.txt: absent, or a text that decodes.
TextStates ==
    { {} } \cup
    { {ZipEntry(TextName, FALSE, TRUE, c, TRUE, <<>>)}
        : c \in { <<>>, <<"h", "i">>, BinaryMarker \o <<" ", "x">> } }

\* The states of the entry d/: absent, or a directory.
DirStates == { {}, {ZipEntry(DirName, TRUE, TRUE, <<>>, TRUE, <<>>)} }

\* The states of the entry b.bin: absent, a text, bytes that do not decode
\* as a string, or an entry neither read of which succeeds.
BinStates ==
    { {}, {ZipEntry(BinName, FALSE, TRUE, <<"o", "k">>, TRUE, <<>>)},
       {ZipEntry(BinName, FALSE, FALSE, <<>>, FALSE, <<>>)} } \cup
    { {ZipEntry(BinName, FALSE, FALSE, <<>>, TRUE, b)}
        : b \in { <<>>, <<255>>, <<0, 200>>, <<77, 97, 110>>, <<1, 2, 3, 250>> } }

ZipArchives == { a \cup d \cup b : a \in TextStates, d \in DirStates, b \in BinStates }

\* The paths asked for: a.txt, d/, d, b.bin, c.txt and the empty path.
ReadPaths == { TextName, DirName, <<"d">>, BinName, <<"c", ".", "t", "x", "t">>, <<>> }

\* Mutation: a directory entry is returned as a file.
AnyEntry(files, name) == { e \in files : e.name = name }

\* archive.file(name): the entry of that name unless it is a directory; the
\* empty set is null.
ZipFile(files, name) == { e \in files : e.name = name /\ ~e.dir }

InitRead ==
    /\ zipFiles \in ZipArchives
    /\ filePath \in ReadPaths
    /\ readPc = "ready"
    /\ readOut = <<>>
    /\ ParseUnused
    /\ ScanUnused
    /\ SearchUnused
    /\ PageUnused
    /\ FormatUnused

\* lines 576-580: the lookup, the throw, or the call of file.async("string")
GetFileContentCall ==
    /\ readPc = "ready"
    /\ IF ZipFile(zipFiles, filePath) = {}
       THEN /\ readPc' = "thrown"
            /\ readOut' = NotFoundMessage
       ELSE /\ readPc' = "string"
            /\ UNCHANGED readOut
    /\ UNCHANGED <<zipFiles, filePath, parseVars, scanVars, searchVars, pageVars, formatVars>>

\* lines 580-582: file.async("string") settles; on a rejection the catch
\* calls file.async("arraybuffer") (line 585)
StringSettles ==
    /\ readPc = "string"
    /\ \E file \in ZipFile(zipFiles, filePath) :
          IF file.string.ok
          THEN /\ readPc' = "returned"
               /\ readOut' = file.string.content
          ELSE /\ readPc' = "arraybuffer"
               /\ UNCHANGED readOut
    /\ UNCHANGED <<zipFiles, filePath, parseVars, scanVars, searchVars, pageVars, formatVars>>

\* lines 585-596: file.async("arraybuffer") settles
BufferSettles ==
    /\ readPc = "arraybuffer"
    /\ \E file \in ZipFile(zipFiles, filePath) :
          /\ readPc' = "returned"
          /\ readOut' = IF file.arraybuffer.ok
                        THEN BinaryReport(file.arraybuffer.bytes)
                        ELSE UnableText
    /\ UNCHANGED <<zipFiles, filePath, parseVars, scanVars, searchVars, pageVars, formatVars>>

NextRead == GetFileContentCall \/ StringSettles \/ BufferSettles

SpecRead == InitRead /\ [][NextRead]_vars

(***************************************************************************)
(* Properties of the materialized tree.                                    *)
(***************************************************************************)
\* The paths of all nodes of a forest, in pre-order, with repetitions.
RECURSIVE FlattenPaths(_)
FlattenPaths(nodes) ==
    IF nodes = <<>> THEN <<>>
    ELSE <<nodes[1].path>> \o FlattenPaths(nodes[1].children) \o FlattenPaths(Tail(nodes))

\* The nodes of a forest, at every depth.
RECURSIVE AllNodes(_)
AllNodes(nodes) ==
    IF nodes = <<>> THEN {}
    ELSE {nodes[1]} \cup AllNodes(nodes[1].children) \cup AllNodes(Tail(nodes))

\* The children lists of a forest: the root list and every node's list.
ChildLists(nodes) == {nodes} \cup { n.children : n \in { m \in AllNodes(nodes) : m.hasChildren } }

Count(seq, x) == Cardinality({ k \in 1..Len(seq) : seq[k] = x })

RECURSIVE JoinParts(_, _, _)
JoinParts(parts, i, acc) ==
    IF i > Len(parts) THEN acc
    ELSE JoinParts(parts, i + 1,
                   IF parts[i] = <<>> THEN acc
                   ELSE IF acc = <<>> THEN parts[i] ELSE acc \o <<Sep>> \o parts[i])

\* A path without its empty segments.
NormalizedPath(path) == JoinParts(Split(path), 1, <<>>)

\* The proper prefixes of a normalized path that end before a separator.
ImpliedDirectories(path) ==
    LET np == NormalizedPath(path)
    IN  { SubSeq(np, 1, k - 1) : k \in { j \in 1..Len(np) : np[j] = Sep } }

Blank(path) == \A k \in 1..Len(path) : path[k] = Sep

NotBlankEntry(e) == ~Blank(e.path)

EntryAB == Entry(<<"a", "/", "b", ".", "t", "x", "t">>, FALSE, 3)

EntryACD == Entry(<<"a", "/", "c", "/", "d", ".", "t", "x", "t">>, FALSE, 7)

FileOf(name, path, size) ==
    [ name |-> name, path |-> path, isDirectory |-> FALSE, hasChildren |-> FALSE,
      children |-> <<>>, hasSize |-> TRUE, size |-> size ]

DirOf(name, path, children) ==
    [ name |-> name, path |-> path, isDirectory |-> TRUE, hasChildren |-> TRUE,
      children |-> children, hasSize |-> FALSE, size |-> 0 ]

\* root [a], a.children = [c (directory), b.txt (file)], c.children = [d.txt]
ExampleTree ==
    << DirOf(<<"a">>, <<"a">>,
         << DirOf(<<"c">>, <<"a", "/", "c">>,
              << FileOf(<<"d", ".", "t", "x", "t">>,
                        <<"a", "/", "c", "/", "d", ".", "t", "x", "t">>, 7) >>),
            FileOf(<<"b", ".", "t", "x", "t">>, <<"a", "/", "b", ".", "t", "x", "t">>, 3) >>) >>

\* C1: in the returned tree no two nodes share a path (so no node is in a
\* children list twice or in two lists), a directory implied by an
\* intermediate segment is materialized exactly once however many entries
\* reference it, and a child's path is its parent's path + "/" + its name.
C1_UniquePaths ==
    pc = "done" =>
        /\ \A p \in { n.path : n \in AllNodes(tree) } : Count(FlattenPaths(tree), p) = 1
        /\ \A k \in 1..Len(archive) : \A d \in ImpliedDirectories(archive[k].path) :
              /\ Count([j \in 1..Len(fileTree) |-> fileTree[j].path], d) = 1
              /\ Count(FlattenPaths(tree), d) <= 1
        /\ \A parent \in AllNodes(tree) : \A c \in 1..Len(parent.children) :
              parent.children[c].path = parent.path \o <<Sep>> \o parent.children[c].name

C1_Witness ==
    /\ pc = "done"
    /\ \E i, j \in 1..Len(archive) : archive[i] = EntryAB /\ archive[j] = EntryACD
    /\ Len(tree) = 1
    /\ Len(tree[1].children) = 2

\* C2: the root list and every children list hold the directories before the
\* files, each group in name order; entries a/b.txt and a/c/d.txt give, in
\* either order, the root a with children c (directory) then b.txt (file).
C2_Sorted ==
    pc = "done" =>
        /\ \A list \in ChildLists(tree) : \A k \in 1..(Len(list) - 1) :
              /\ list[k].isDirectory \/ ~list[k + 1].isDirectory
              /\ list[k].isDirectory = list[k + 1].isDirectory
                    => localeCompare(list[k].name, list[k + 1].name) < 0
        /\ archive \in {<<EntryAB, EntryACD>>, <<EntryACD, EntryAB>>} => tree = ExampleTree

C2_Witness ==
    /\ pc = "done"
    /\ archive = <<EntryACD, EntryAB>>
    /\ tree[1].children[1].isDirectory
    /\ ~tree[1].children[2].isDirectory

\* C3: every node created for a path with a separator is in the children
\* list of the node of its parent path, and every entry with a non-empty
\* path is reachable from the returned roots.
C3_EveryNodeLinked ==
    pc = "done" =>
        /\ \A k \in 1..Len(fileTree) :
              IncludesSep(fileTree[k].path) =>
                 \E p \in 1..Len(fileTree) :
                    /\ fileTree[p].path \o <<Sep>> \o fileTree[k].name = fileTree[k].path
                    /\ fileTree[p].hasChildren
                    /\ Count(fileTree[p].children, fileTree[k].path) = 1
        /\ \A k \in 1..Len(archive) :
              ~Blank(archive[k].path) =>
                 Count(FlattenPaths(tree), NormalizedPath(archive[k].path)) = 1

\* C4: a node is created as a directory when its path is not the whole path
\* of the entry being walked or the entry is a directory marker, as a file
\* otherwise; a size (the entry's) is recorded on file nodes only.
C4_NodeKinds ==
    [][ /\ (pc = "entries" /\ idx <= Len(archive)) =>
              \A k \in (Len(fileTree) + 1)..Len(fileTree') :
                 LET n == fileTree'[k]
                     e == archive[idx]
                 IN  /\ n.isDirectory = (n.path # NormalizedPath(e.path) \/ e.dir)
                     /\ n.hasSize = ~n.isDirectory
                     /\ n.hasSize => n.size = e.size
        /\ pc' = "done" => \A n \in AllNodes(tree') : n.hasSize = ~n.isDirectory
      ]_vars

C4_Witness ==
    /\ pc = "done"
    /\ Len(archive) = 2
    /\ archive[1].dir /\ archive[1].path = <<"a", Sep>>
    /\ \E n \in AllNodes(tree) : n.isDirectory /\ ~n.hasSize /\ n.path = <<"a">>
    /\ \E n \in AllNodes(tree) : n.isDirectory /\ ~n.hasSize /\ n.path = <<"a", Sep, "c">>
    /\ \E n \in AllNodes(tree) : ~n.isDirectory /\ n.hasSize /\ n.size = 7

\* C5: in the returned tree every directory has a children list (possibly
\* empty) and no file has one.
C5_ChildrenIffDirectory ==
    pc = "done" =>
        \A n \in AllNodes(tree) :
            /\ n.hasChildren = n.isDirectory
            /\ ~n.isDirectory => n.children = <<>>

C5_Witness ==
    /\ pc = "done"
    /\ \E n \in AllNodes(tree) : n.isDirectory /\ n.hasChildren /\ n.children = <<>>
    /\ \E n \in AllNodes(tree) : ~n.isDirectory /\ ~n.hasChildren

\* C6: an archive without entries gives the empty root list, and an entry
\* whose path is empty or only separators creates no node: the Map and the
\* tree are those of the archive without such entries.
C6_BlankEntriesSkipped ==
    pc = "done" =>
        /\ archive = <<>> => tree = <<>>
        /\ fileTree = AddEntries(<<>>, SelectSeq(archive, NotBlankEntry), 1)
        /\ tree = ParseArchive(SelectSeq(archive, NotBlankEntry))
        /\ \A n \in AllNodes(tree) : n.name # <<>>

C6_Witness ==
    /\ pc = "done"
    /\ Len(archive) = 3
    /\ \E k \in 1..Len(archive) : archive[k].path = <<>>
    /\ \E k \in 1..Len(archive) : archive[k].path = <<Sep>>
    /\ Len(tree) = 1

\* C7: materializing the same archive again returns an equal tree
\* (structure, names, paths, sizes, child order).
C7_Deterministic ==
    (pc = "done" /\ prevTree # <<>>) => tree = prevTree[1]

C7_Witness ==
    /\ pc = "done"
    /\ calls = 2
    /\ prevTree # <<>>
    /\ Len(FlattenPaths(tree)) >= 4

(***************************************************************************)
(* Properties of the search of one file.                                   *)
(***************************************************************************)
SameLetter(c, d) ==
    \/ c = d
    \/ \E i \in 1..Len(LowerCase) : {c, d} = {LowerCase[i], UpperCase[i]}

\* q occurs in line at offset p (0-based), letter case aside
Occurs(line, q, p) ==
    /\ p + Len(q) <= Len(line)
    /\ \A i \in 1..Len(q) : SameLetter(line[p + i], q[i])

ScannedMatches ==
    IF scanAcc.searchResults = <<>> THEN <<>> ELSE scanAcc.searchResults[1].matches

ExampleMatches ==
    << [ line |-> 1, content |-> <<"f", "o", "o", " ", "b", "a", "r">>,
         matchStart |-> 4, matchEnd |-> 7 ],
       [ line |-> 2, content |-> <<"B", "A", "R", " ", "f", "o", "o", " ", "b", "a", "r">>,
         matchStart |-> 0, matchEnd |-> 3 ],
       [ line |-> 2, content |-> <<"B", "A", "R", " ", "f", "o", "o", " ", "b", "a", "r">>,
         matchStart |-> 8, matchEnd |-> 11 ] >>

\* C10: for every text and non-blank query the recorded matches are exactly
\* the case-insensitive, non-overlapping, leftmost-first occurrences of the
\* query on each line, with 1-based line numbers, in line order and then
\* left to right; the two-line example gives one result with three matches.
C10_Matches ==
    scanPc = "scanned" =>
        LET lines == SplitBy(scanContent, Newline)
            ms == ScannedMatches
        IN  /\ Len(scanAcc.searchResults) <= 1
            /\ scanAcc.searchResults # <<>> =>
                  /\ scanAcc.searchResults[1].file = ScannedFile
                  /\ ms # <<>>
            /\ scanAcc.totalMatches = Len(ms)
            /\ \A k \in 1..Len(ms) :
                  /\ ms[k].line \in 1..Len(lines)
                  /\ ms[k].matchStart >= 0
                  /\ ms[k].matchEnd = ms[k].matchStart + Len(scanQuery)
                  /\ Occurs(lines[ms[k].line], scanQuery, ms[k].matchStart)
            /\ \A k \in 1..(Len(ms) - 1) :
                  \/ ms[k].line < ms[k + 1].line
                  \/ ms[k].line = ms[k + 1].line /\ ms[k].matchEnd <= ms[k + 1].matchStart
            /\ \A n \in 1..Len(lines) : \A p \in 0..Len(lines[n]) :
                  Occurs(lines[n], scanQuery, p) =>
                     \E k \in 1..Len(ms) :
                        /\ ms[k].line = n
                        /\ ms[k].matchStart <= p
                        /\ p < ms[k].matchEnd
            /\ (scanContent = ExampleText /\ scanQuery = ExampleQuery) =>
                  scanAcc = [ searchResults |-> <<[file |-> ScannedFile,
                                                  matches |-> ExampleMatches]>>,
                              totalMatches |-> 3 ]

C10_Witness ==
    /\ scanPc = "scanned"
    /\ scanContent = ExampleText
    /\ scanQuery = ExampleQuery
    /\ ScannedMatches = ExampleMatches

\* a state where two occurrences overlap and only the left one is recorded
C10_OverlapReached ==
    /\ scanPc = "scanned"
    /\ scanContent = <<"a", "a", "a">>
    /\ scanQuery = <<"a", "a">>
    /\ Len(ScannedMatches) = 1

(***************************************************************************)
(* Properties of the pattern built from the query.                         *)
(***************************************************************************)
\* the lines on which the query occurs character for character (up to case)
LinesWithQuery ==
    LET lines == SplitBy(scanContent, Newline)
    IN  { n \in 1..Len(lines) : \E p \in 0..Len(lines[n]) : Occurs(lines[n], scanQuery, p) }

\* C11: the query is matched literally: a line has a match exactly when it
\* holds the query's own characters (up to case), whatever pattern
\* metacharacters the query contains; the query "a.b*" matches the text
\* "a.b*" once, from 0 to 4, and does not match "aXbYYY".
C11_LiteralMatch ==
    scanPc = "scanned" =>
        /\ { ScannedMatches[k].line : k \in 1..Len(ScannedMatches) } = LinesWithQuery
        /\ (scanQuery = LiteralQuery /\ scanContent = LiteralQuery) =>
              ScannedMatches = << [ line |-> 1, content |-> LiteralQuery,
                                    matchStart |-> 0, matchEnd |-> 4 ] >>
        /\ (scanQuery = LiteralQuery /\ scanContent = LiteralMiss) =>
              scanAcc = NewAccumulator

\* the query "a.b*" has been searched in the text "a.b*" and found once
C11_Witness ==
    /\ scanPc = "scanned"
    /\ scanQuery = LiteralQuery
    /\ scanContent = LiteralQuery
    /\ Len(ScannedMatches) = 1

\* the query "a.b*" has been searched in the text "aXbYYY" and not found
C11_MissReached ==
    /\ scanPc = "scanned"
    /\ scanQuery = LiteralQuery
    /\ scanContent = LiteralMiss
    /\ scanAcc.searchResults = <<>>

\* C12: for every recorded match, slicing the stored (trimmed) line text
\* from matchStart to matchEnd yields the text that matched the query, also
\* on lines that begin with whitespace; this is the part the result row
\* highlights.
C12_OffsetsIntoContent ==
    scanPc = "scanned" =>
        \A k \in 1..Len(ScannedMatches) :
            LET m == ScannedMatches[k]
                shown == highlightMatch(m.content, m.matchStart, m.matchEnd)
            IN  /\ Len(shown.match) = Len(scanQuery)
                /\ \A i \in 1..Len(scanQuery) : SameLetter(shown.match[i], scanQuery[i])

\* the line " a" searched for "a": the stored text is "a" and the offsets are
\* 1 and 2, so the highlighted part is empty
C12_LeadingSpaceReached ==
    /\ scanPc = "scanned"
    /\ scanContent = <<" ", "a">>
    /\ scanQuery = <<"a">>
    /\ ScannedMatches = << [line |-> 1, content |-> <<"a">>, matchStart |-> 1, matchEnd |-> 2] >>
    /\ highlightMatch(<<"a">>, 1, 2) = [before |-> <<"a">>, match |-> <<>>, after |-> <<>>]

(***************************************************************************)
(* Properties of overlapping searches.                                     *)
(***************************************************************************)
\* no timeout is pending and no performSearch call is waiting
Quiescent == timer = {} /\ searches = {}

\* C8: once every search has resolved, the displayed results and counters
\* are those of the newest query, whatever the order of completion.
C8_LastQueryWins ==
    (Quiescent /\ searchLog # <<>>) =>
        /\ newestOut # <<>>
        /\ results = newestOut[1].results
        /\ searchStats = newestOut[1].stats

\* C9: a search with an empty (or blank) query sets the results to the empty
\* list and both counters to zero and makes no content read.
C9_EmptyQueryNoReads ==
    [][ (Len(searchLog') > Len(searchLog) /\ IsBlankQuery(searchLog'[Len(searchLog')])) =>
            /\ results' = <<>>
            /\ searchStats' = NoStats
            /\ readsIssued' = readsIssued
            /\ searches' = searches
            /\ isSearching' = isSearching
      ]_vars

\* an empty search ran after a search that had read files and published matches
C9_Witness ==
    /\ Len(searchLog) >= 2
    /\ searchLog[Len(searchLog)] = <<>>
    /\ ~IsBlankQuery(searchLog[Len(searchLog) - 1])
    /\ Quiescent
    /\ readsIssued = Len(SearchFiles)
    /\ results = <<>>
    /\ searchStats = NoStats


(***************************************************************************)
(* Properties of the files a search skips.                                 *)
(***************************************************************************)
\* the read of the k-th searchable file returns a text with the binary marker
BinaryRead(k) ==
    fileContent[k].ok /\ StartsWith(fileContent[k].content, BinaryMarker)

\* the position of a path in the list of searchable files
FileIndex(path) == CHOOSE k \in 1..Len(textFiles) : textFiles[k] = path

\* the search s has gone on from its current file without taking anything
\* from it: it reads the next file with the same accumulator or, after the
\* last file, publishes the accumulator as it was
ContinuesUntouched(s) ==
    IF s.at < Len(textFiles)
    THEN /\ [s EXCEPT !.at = s.at + 1] \in searches'
         /\ readsIssued' = readsIssued + 1
    ELSE /\ results' = s.acc.searchResults
         /\ searchStats' = [ files |-> Len(s.acc.searchResults),
                             matches |-> s.acc.totalMatches ]
         /\ isSearching' = FALSE

\* C13: a file whose read returns a text starting with the binary marker
\* adds no match, no result and nothing to either counter, even when the text
\* contains the query, and the search goes on with the next file.
C13_BinarySkipped ==
    [][ /\ \A s \in searches :
              (BinaryRead(s.at) /\ s \notin searches') => ContinuesUntouched(s)
        /\ \A k \in 1..Len(results') : ~BinaryRead(FileIndex(results'[k].file))
      ]_vars

\* the first file returned "[Binary file a", the second "a b\nB"; the search
\* for "a" has published the second file alone
C13_Witness ==
    /\ Quiescent
    /\ searchLog # <<>>
    /\ searchLog[Len(searchLog)] = <<"a">>
    /\ Len(textFiles) = 2
    /\ BinaryRead(1)
    /\ fileContent[2].ok /\ ~BinaryRead(2)
    /\ Len(results) = 1
    /\ results[1].file = textFiles[2]
    /\ searchStats = [files |-> 1, matches |-> 1]


(***************************************************************************)
(* Properties of the searchable files.                                     *)
(***************************************************************************)
\* the name after its last dot, the whole name when it has no dot
AfterLastDot(name) ==
    LET dots == { i \in 1..Len(name) : name[i] = "." }
    IN  IF dots = {} THEN name
        ELSE SubSeq(name, (CHOOSE i \in dots : \A j \in dots : j <= i) + 1, Len(name))

SameWord(a, b) ==
    Len(a) = Len(b) /\ \A i \in 1..Len(a) : SameLetter(a[i], b[i])

ContainsWord(name, word) == \E p \in 0..Len(name) : Occurs(name, word, p)

Searchable(node) ==
    /\ ~node.isDirectory
    /\ \/ \E ext \in textExtensions : SameWord(AfterLastDot(node.name), ext)
       \/ ContainsWord(node.name, Readme)
       \/ ContainsWord(node.name, License)
       \/ ContainsWord(node.name, Changelog)

\* C14: the files the search scans are exactly the file nodes of the tree
\* whose extension is in the allow-list or whose name contains "readme",
\* "license" or "changelog" in any letter case; no directory and no other
\* file is among them.
C14_ScannedSet ==
    /\ { textFiles[k] : k \in 1..Len(textFiles) }
          = { n.path : n \in { m \in AllNodes(tree) : Searchable(m) } }
    /\ \A n \in AllNodes(tree) :
          n.isDirectory => \A k \in 1..Len(textFiles) : textFiles[k] # n.path

\* the tree of lib.js/notes, d/License.bin and x.png: a directory with a
\* listed extension, a file found by its name alone and two files left out
C14_Witness ==
    /\ { n.path : n \in AllNodes(tree) }
          = { <<"l", "i", "b", ".", "j", "s">>, <<"l", "i", "b", ".", "j", "s", "/", "n", "o", "t", "e", "s">>, <<"d">>, <<"d", "/", "L", "i", "c", "e", "n", "s", "e", ".", "b", "i", "n">>, <<"x", ".", "p", "n", "g">> }
    /\ textFiles = << <<"d", "/", "L", "i", "c", "e", "n", "s", "e", ".", "b", "i", "n">> >>


(***************************************************************************)
(* Properties of the result list.                                          *)
(***************************************************************************)
\* the place of a node in the pre-order walk of the tree
PreOrderIndex(path) ==
    CHOOSE k \in 1..Len(FlattenPaths(tree)) : FlattenPaths(tree)[k] = path

\* the displayed results and the list each running search has built so far
ResultLists == {results} \cup { s.acc.searchResults : s \in searches }

\* C15: a result list holds a file only if the file has at least one match,
\* holds no file twice, and lists the files in the order of the filtered
\* list, which is the pre-order of the tree, whatever their match counts.
C15_ResultOrder ==
    /\ \A j, k \in 1..Len(textFiles) :
          j < k => PreOrderIndex(textFiles[j]) < PreOrderIndex(textFiles[k])
    /\ \A list \in ResultLists :
          /\ \A k \in 1..Len(list) :
                /\ list[k].matches # <<>>
                /\ \E i \in 1..Len(textFiles) : textFiles[i] = list[k].file
          /\ \A j, k \in 1..Len(list) :
                j < k => FileIndex(list[j].file) < FileIndex(list[k].file)

\* both files are listed, d/a.txt with one match before b.md with two
C15_Witness ==
    /\ Len(results) = 2
    /\ results[1].file = <<"d", "/", "a", ".", "t", "x", "t">>
    /\ results[2].file = <<"b", ".", "m", "d">>
    /\ Len(results[1].matches) = 1
    /\ Len(results[2].matches) = 2

RECURSIVE SumMatches(_)
SumMatches(list) ==
    IF list = <<>> THEN 0 ELSE Len(Head(list).matches) + SumMatches(Tail(list))

\* C16: the counters agree with the displayed results in every state: the
\* file counter is the number of results and the match counter is the sum
\* of the results' match counts (both zero when there are no results).
C16_CountersAgree ==
    /\ searchStats.files = Len(results)
    /\ searchStats.matches = SumMatches(results)

\* two results with three matches in all are displayed
C16_Witness ==
    /\ Len(results) = 2
    /\ SumMatches(results) = 3
    /\ searchStats = [files |-> 2, matches |-> 3]


(***************************************************************************)
(* Properties of a search with failing reads.                              *)
(***************************************************************************)
\* what scanning the files k.. adds to acc when the files whose read is
\* rejected are left out
RECURSIVE ScanReadable(_, _, _)
ScanReadable(k, acc, searchQuery) ==
    IF k > Len(textFiles) THEN acc
    ELSE ScanReadable(k + 1,
                      IF fileContent[k].ok
                      THEN ProcessContent(acc, textFiles[k], fileContent[k].content,
                                          searchQuery)
                      ELSE acc,
                      searchQuery)

\* C17: a rejected read excludes only its file: the search goes on with the
\* next file, and the search that settles its last read publishes the
\* results and counters of all files whose reads succeeded and is finished.
C17_ReadFailureSkipped ==
    [][ \A s \in searches :
            /\ (~fileContent[s.at].ok /\ s \notin searches') => ContinuesUntouched(s)
            /\ (s.at = Len(textFiles) /\ s \notin searches') =>
                  LET all == ScanReadable(1, NewAccumulator, s.searchQuery)
                  IN  /\ results' = all.searchResults
                      /\ searchStats' = [ files |-> Len(all.searchResults),
                                          matches |-> all.totalMatches ]
                      /\ isSearching' = FALSE
      ]_vars

\* the read of the first file was rejected, the second returned "a b\nB";
\* the search for "b" is over and shows the second file with its two matches
C17_Witness ==
    /\ Quiescent
    /\ searchLog # <<>>
    /\ searchLog[Len(searchLog)] = <<"b">>
    /\ Len(textFiles) = 2
    /\ ~fileContent[1].ok
    /\ fileContent[2] = Outcome(TRUE, <<"a", " ", "b", Newline, "B">>)
    /\ Len(results) = 1
    /\ results[1].file = textFiles[2]
    /\ searchStats = [files |-> 1, matches |-> 2]
    /\ ~isSearching


(***************************************************************************)
(* Properties of the debounce.                                             *)
(***************************************************************************)
\* C18: a search starts only for a query that has stayed unchanged for the
\* debounce delay; every change of the query cancels the pending timeout
\* and sets a new one for the new query, so at most one timeout is pending
\* and a query replaced before its timeout fires is never searched.
C18_Debounce ==
    [][ /\ Cardinality(timer') <= 1
        /\ query' # query => timer' = {Timeout(query')}
        /\ Len(searchLog') > Len(searchLog) =>
              /\ searchLog'[Len(searchLog')] = query
              /\ unchangedFor >= DebounceMs
      ]_vars

\* the query went from "" to "a" and then, 200 ms later, to "b"; the only
\* search made is the one for "b"
C18_Witness ==
    /\ searchLog = << <<"b">> >>
    /\ query = <<"b">>
    /\ timer = {}
    /\ unchangedFor = DebounceMs


(***************************************************************************)
(* Properties of the reads of a search.                                    *)
(***************************************************************************)
\* Every waiting performSearch call has one getFileContent call outstanding.
OutstandingReads == Cardinality(searches)

\* C19 as stated: the files are read one at a time in the order of the
\* filtered list, so that at no moment two content reads of the search are
\* outstanding.
C19_OneReadOutstanding == OutstandingReads <= 1

\* C19 amended: each performSearch call reads one file at a time in the order
\* of the filtered list: it starts with the read of the first file, and the
\* read of the next file is issued in the step in which its previous read
\* settles; calls started by successive timeouts overlap, each with one
\* read outstanding.
C19_SequentialPerSearch ==
    [][ /\ \A n \in searches' :
              (\A s \in searches : s.id # n.id) =>
                  /\ n.at = 1
                  /\ readsIssued' = readsIssued + 1
        /\ \A s \in searches : s \notin searches' =>
              \/ /\ s.at = Len(textFiles)
                 /\ \A n \in searches' : n.id # s.id
                 /\ readsIssued' = readsIssued
              \/ /\ s.at < Len(textFiles)
                 /\ \E n \in searches' : n.id = s.id /\ n.at = s.at + 1
                 /\ readsIssued' = readsIssued + 1
        /\ Cardinality({ s.id : s \in searches' }) = Cardinality(searches')
      ]_vars

\* two calls overlap: the older waits for its second file, the newer for
\* its first
C19_Witness ==
    \E s, n \in searches :
        /\ s.id < n.id
        /\ s.at = 2
        /\ n.at = 1
        /\ readsIssued = 3


(***************************************************************************)
(* Properties of getFileContent.                                           *)
(***************************************************************************)
\* the requested path names an entry of the archive that is a file
IsFileEntry == \E e \in zipFiles : e.name = filePath /\ ~e.dir

RequestedEntry == CHOOSE e \in zipFiles : e.name = filePath

\* "[Binary file - 1 Bytes]\n\nBase64 content:\n/w=="
ExampleReport ==
    <<"[", "B", "i", "n", "a", "r", "y", " ", "f", "i", "l", "e", " ", "-", " ", "1", " ", "B", "y", "t", "e", "s", "]">> \o <<Newline, Newline>> \o
        <<"B", "a", "s", "e", "6", "4", " ", "c", "o", "n", "t", "e", "n", "t", ":">> \o <<Newline>> \o <<"/", "w", "=", "=">>

\* C20: getFileContent throws exactly when the path is not a file entry of
\* the archive; for a file entry it returns the decoded text, or, when the
\* decoding fails, a text that begins with "[Binary file", or, when that
\* read fails too, "[Unable to read file content]".
C20_ReaderContract ==
    /\ readPc = "thrown" => ~IsFileEntry /\ readOut = NotFoundMessage
    /\ ~IsFileEntry => readPc \in {"ready", "thrown"}
    /\ readPc = "returned" =>
          /\ IsFileEntry
          /\ IF RequestedEntry.string.ok
             THEN readOut = RequestedEntry.string.content
             ELSE IF RequestedEntry.arraybuffer.ok
                  THEN /\ StartsWith(readOut, BinaryMarker)
                       /\ RequestedEntry.arraybuffer.bytes = <<255>> =>
                             readOut = ExampleReport
                  ELSE readOut = UnableText

\* the one byte 255 of b.bin did not decode and came back as the report
C20_Witness ==
    /\ readPc = "returned"
    /\ filePath = BinName
    /\ readOut = ExampleReport

\* a directory entry was asked for and the call has thrown
C20_DirectoryThrows ==
    /\ readPc = "thrown"
    /\ filePath = DirName
    /\ \E e \in zipFiles : e.name = DirName

\* neither read of b.bin succeeded and the placeholder came back
C20_PlaceholderReached ==
    /\ readPc = "returned"
    /\ filePath = BinName
    /\ readOut = UnableText


(***************************************************************************)
(* The page (src/app/page.tsx) with its FileUpload and its TabbedEditor.   *)
(* The state updates a handler makes between two awaits are applied in one *)
(* render, and the effects of that render and of the renders the effects   *)
(* cause are part of the same step. An optional value is a tuple of no or  *)
(* one element; the empty string is the empty tuple.                       *)
(***************************************************************************)
\* The loads and content reads the user starts, taken together.
MaxStarted == 3

\* The highlight timeouts pending at a time.
MaxTimers == 1

\* 100 * 1024 * 1024 (file-upload.tsx line 25)
MaxUploadSize == 104857600

\* A File: its name, its size, the entries of the archive it holds, whether
\* zip.loadAsync(file) resolves (always, never, or the first time only: the
\* file changes on disk between the two loadAsync calls), and the paths for
\* which getFileContent rejects.
UploadFile(name, size, entries, readable, unreadable) ==
    [name |-> name, size |-> size, entries |-> entries, readable |-> readable,
     unreadable |-> unreadable]

\* x.txt and d/y.md
EntriesXY ==
    << Entry(<<"x", ".", "t", "x", "t">>, FALSE, 1),
       Entry(<<"d", "/", "y", ".", "m", "d">>, FALSE, 2) >>

\* x.txt
EntriesX == << Entry(<<"x", ".", "t", "x", "t">>, FALSE, 1) >>

FileAZip == UploadFile(<<"a", ".", "z", "i", "p">>, 1000, EntriesXY, "always", {<<"d", "/", "y", ".", "m", "d">>})

FileBJar == UploadFile(<<"b", ".", "J", "A", "R">>, MaxUploadSize, EntriesX, "always", {})

FileBadZip == UploadFile(<<"b", "a", "d", ".", "z", "i", "p">>, 10, <<>>, "never", {})

FileFZip == UploadFile(<<"f", ".", "z", "i", "p">>, 10, EntriesX, "once", {})

\* The files the user drops or picks.
OfferedFiles ==
    { FileAZip,                                                     \* a.zip
      FileBJar,                                                     \* b.JAR
      FileBadZip,                                                   \* bad.zip
      FileFZip,                                                     \* f.zip
      UploadFile(<<"b", "i", "g", ".", "z", "i", "p">>, MaxUploadSize + 1, EntriesXY, "always", {}),   \* big.zip
      UploadFile(<<"c", ".", "t", "x", "t">>, 5, <<>>, "never", {}),                        \* c.txt
      UploadFile(<<"a", ".", "z", "i", "p", ".", "b", "a", "k">>, 5, EntriesX, "always", {}),                 \* a.zip.bak
      UploadFile(<<"z", "i", "p">>, 5, EntriesX, "always", {}),                    \* zip
      UploadFile(<<"J", "A", "R">>, 7, <<>>, "never", {}),                            \* JAR
      UploadFile(<<".", "z", "i", "p">>, 7, EntriesX, "once", {}),                         \* .zip
      UploadFile(<<"a", ".", "z", "i", "p", ".">>, 7, EntriesX, "always", {}),                       \* a.zip.
      UploadFile(<<"c", ".", "j", "a", "r">>, 9, EntriesXY, "always", {}) }                     \* c.jar

\* The archives loaded while files are browsed.
BrowsedFiles == {FileAZip, FileBJar, FileBadZip, FileFZip}

\* "Please select a .jar or .zip file"
ExtensionMessage == <<"P", "l", "e", "a", "s", "e", " ", "s", "e", "l", "e", "c", "t", " ", "a", " ", ".", "j", "a", "r", " ", "o", "r", " ", ".", "z", "i", "p", " ", "f", "i", "l", "e">>

\* "File size must be less than 100MB"
SizeMessage == <<"F", "i", "l", "e", " ", "s", "i", "z", "e", " ", "m", "u", "s", "t", " ", "b", "e", " ", "l", "e", "s", "s", " ", "t", "h", "a", "n", " ", "1", "0", "0", "M", "B">>

\* "[Error loading file content]"
ErrorContent == <<"[", "E", "r", "r", "o", "r", " ", "l", "o", "a", "d", "i", "n", "g", " ", "f", "i", "l", "e", " ", "c", "o", "n", "t", "e", "n", "t", "]">>

\* lines 17-18 of file-upload.tsx: "." + file.name.split(".").pop()?.toLowerCase()
UploadExtension(name) ==
    LET parts == SplitBy(name, ".")
    IN  <<".">> \o toLowerCase(parts[Len(parts)])

\* const validExtensions = [".jar", ".zip"]
validExtensions == << <<".", "j", "a", "r">>, <<".", "z", "i", "p">> >>

\* validateFile (lines 16-33): the error it sets; the empty tuple is
\* setError(null) and the return value true.
validateFile(file) ==
    IF ~(\E k \in 1..Len(validExtensions) : validExtensions[k] = UploadExtension(file.name))
    THEN <<ExtensionMessage>>
    ELSE IF file.size > MaxUploadSize
    THEN <<SizeMessage>>
    ELSE <<>>


\* What getFileContent(archive, path) settles with: the text stands for the
\* bytes of that entry in that archive.
ContentOf(from, path) ==
    IF path \in from.unreadable THEN Outcome(FALSE, <<>>)
    ELSE Outcome(TRUE, from.name \o <<":">> \o path)

\* One element of openFiles; from names the archive object the node and the
\* content were taken from.
OpenFile(node, content, from) == [file |-> node, content |-> content, from |-> from]

\* openFiles.find((f) => f.file.path === node.path)
ExistingFile(files, path) == \E k \in 1..Len(files) : files[k].file.path = path

\* The TabbedEditor is rendered while archiveFile is set (page.tsx line 160).
EditorShown == archiveFile # <<>>

\* lines 118-123 of tabbed-editor.tsx
FilesToTabs(files) ==
    [k \in 1..Len(files) |->
        [id |-> files[k].file.path, file |-> files[k].file,
         content |-> files[k].content, isLoading |-> FALSE]]

\* lines 127-130 of tabbed-editor.tsx: the last file becomes the active tab
LastTabId(files, active) ==
    IF Len(files) > 0 THEN files[Len(files)].file.path ELSE active

TabIds(ts) == { ts[k].id : k \in 1..Len(ts) }

\* The highlight effect (tabbed-editor.tsx lines 135-170): the editor of the
\* active tab reveals the line.
Reveal(last, line, for, active, mounted) ==
    IF line # 0 /\ active # <<>> /\ active \in mounted
    THEN <<[tab |-> active, line |-> line, for |-> for]>>
    ELSE last

\* The effects after a render in which files or highlightLine changed: the
\* highlight effect of that render sees the active tab of that render, and
\* runs again in the render the files effect causes by setActiveTab.
RevealAfter(line, for, lineChanged, active) ==
    LET first == IF lineChanged THEN Reveal(revealed, line, for, activeTab, editors)
                 ELSE revealed
    IN  IF active # activeTab THEN Reveal(first, line, for, active, editors) ELSE first

InitPage ==
    /\ PageUnused
    /\ ParseUnused
    /\ ScanUnused
    /\ SearchUnused
    /\ ReadUnused
    /\ FormatUnused

\* The position of a handleFileSelect call: at one of its two awaits, or
\* finished through the try block or through the catch block.
LoadCall(id, file, at) == [id |-> id, file |-> file, at |-> at]

\* What loadAsync settles with at each of the two places it is awaited
\* (page.tsx line 35, and line 505 of tabbed-editor.tsx inside parseArchive)
Resolves(file, at) ==
    \/ file.readable = "always"
    \/ file.readable = "once" /\ at = "loadAsync"

\* setIsLoading(false) in the finally block (page.tsx lines 44-46)
KeepsLoading == TRUE
FinallyLoading == FALSE

\* handleDrop and handleFileInput (file-upload.tsx lines 35-65) with
\* validateFile, and handleFileSelect (page.tsx lines 31-35) up to its first
\* await. The drop zone and the input are disabled while isLoading.
Offer(file) ==
    /\ archiveFile = <<>>
    /\ ~isLoading
    /\ loadCount + readCount < MaxStarted
    /\ uploadError' = validateFile(file)
    /\ IF validateFile(file) = <<>>
       THEN /\ isLoading' = TRUE
            /\ loads' = {LoadCall(loadCount + 1, file, "loadAsync")}
            /\ loadCount' = loadCount + 1
       ELSE UNCHANGED <<isLoading, loads, loadCount>>
    /\ UNCHANGED <<loadedArchive, archiveFile, pageTree, openFiles, highlightLine, highlightFor,
                   contentReads, clearTimers, readCount, tabs, activeTab,
                   editors, revealed>>
    /\ lastSelected' = <<>>
    /\ UNCHANGED closedTabs
    /\ UNCHANGED <<parseVars, scanVars, searchVars, readVars, formatVars>>

\* page.tsx line 35: zip.loadAsync(file) settles; a rejection runs the catch
\* and the finally (lines 42-46)
LoadSettles(load) ==
    /\ load \in loads
    /\ load.at = "loadAsync"
    /\ IF Resolves(load.file, "loadAsync")
       THEN /\ loads' = (loads \ {load}) \cup {[load EXCEPT !.at = "parseArchive"]}
            /\ UNCHANGED isLoading
       ELSE /\ loads' = (loads \ {load}) \cup {[load EXCEPT !.at = "caught"]}
            /\ isLoading' = FinallyLoading
    /\ UNCHANGED <<loadedArchive, archiveFile, pageTree, openFiles, highlightLine, highlightFor,
                   uploadError, contentReads, clearTimers, loadCount, readCount,
                   tabs, activeTab, editors, revealed>>
    /\ lastSelected' = <<>>
    /\ UNCHANGED closedTabs
    /\ UNCHANGED <<parseVars, scanVars, searchVars, readVars, formatVars>>

\* page.tsx lines 36-46: parseArchive(file) settles. On success the four
\* states are set in one render, FileUpload is replaced by the archive view
\* and a TabbedEditor is mounted with the new, empty files.
ParseSettles(load) ==
    /\ load \in loads
    /\ load.at = "parseArchive"
    /\ isLoading' = FinallyLoading
    /\ IF Resolves(load.file, "parseArchive")
       THEN /\ loads' = (loads \ {load}) \cup {[load EXCEPT !.at = "returned"]}
            /\ loadedArchive' = <<load.file>>
            /\ archiveFile' = <<load.file>>
            /\ pageTree' = ParseArchive(load.file.entries)
            /\ openFiles' = <<>>
            /\ uploadError' = <<>>
            /\ tabs' = <<>>
            /\ activeTab' = <<>>
            /\ editors' = {}
       ELSE /\ loads' = (loads \ {load}) \cup {[load EXCEPT !.at = "caught"]}
            /\ UNCHANGED <<loadedArchive, archiveFile, pageTree, openFiles, uploadError,
                           tabs, activeTab, editors>>
    /\ UNCHANGED <<highlightLine, highlightFor, contentReads, clearTimers, loadCount, readCount,
                   revealed>>
    /\ lastSelected' = <<>>
    /\ closedTabs' = IF Resolves(load.file, "parseArchive") THEN {} ELSE closedTabs
    /\ UNCHANGED <<parseVars, scanVars, searchVars, readVars, formatVars>>

\* The "Upload New File" button (page.tsx lines 248-253); the archive view
\* with its TabbedEditor is unmounted.
UploadNewFile ==
    /\ archiveFile # <<>>
    /\ loadedArchive' = <<>>
    /\ archiveFile' = <<>>
    /\ pageTree' = <<>>
    /\ openFiles' = <<>>
    /\ tabs' = <<>>
    /\ activeTab' = <<>>
    /\ editors' = {}
    /\ UNCHANGED <<isLoading, highlightLine, highlightFor, uploadError, loads, contentReads, clearTimers,
                   loadCount, readCount, revealed>>
    /\ lastSelected' = <<>>
    /\ closedTabs' = {}
    /\ UNCHANGED <<parseVars, scanVars, searchVars, readVars, formatVars>>

\* The file nodes of the tree shown (file-tree.tsx calls onFileSelect for
\* files only).
FileNodes == { n \in AllNodes(pageTree) : ~n.isDirectory }

\* handleFileTreeSelect (page.tsx lines 49-60) up to await getFileContent
handleFileTreeSelect(node) ==
    /\ EditorShown
    /\ node \in FileNodes
    /\ ExistingFile(openFiles, node.path) \/ loadCount + readCount < MaxStarted
    /\ IF node.isDirectory \/ loadedArchive = <<>> \/ ExistingFile(openFiles, node.path)
       THEN UNCHANGED <<contentReads, readCount>>
       ELSE /\ contentReads' = contentReads \cup
                   {[id |-> readCount + 1, node |-> node, from |-> loadedArchive[1], line |-> 0]}
            /\ readCount' = readCount + 1
    /\ UNCHANGED <<loadedArchive, archiveFile, pageTree, openFiles, isLoading, highlightLine, highlightFor,
                   uploadError, loads, clearTimers, loadCount, tabs, activeTab,
                   editors, revealed>>
    /\ lastSelected' = node.path
    /\ closedTabs' = closedTabs \ {node.path}
    /\ UNCHANGED <<parseVars, scanVars, searchVars, readVars, formatVars>>

\* The lines a match in a file can be on (search-dialog.tsx line 151: the
\* index of the line plus one): a file has no more non-empty lines than bytes.
MatchLines(file) == 1..file.size

\* handleResultClick (search-dialog.tsx lines 184-190) and
\* handleSearchFileSelect (page.tsx lines 87-111) up to await getFileContent,
\* or to its end when the file is open already. The results clicked are
\* matches in the text files of the tree shown.
handleSearchFileSelect(file, line) ==
    /\ file \in FileNodes
    /\ IsTextFile(file.name)
    /\ line \in MatchLines(file)
    /\ IF ExistingFile(openFiles, file.path)
       THEN clearTimers < MaxTimers
       ELSE loadCount + readCount < MaxStarted
    /\ IF loadedArchive = <<>>
       THEN UNCHANGED <<contentReads, readCount, highlightLine, highlightFor, clearTimers, revealed>>
       ELSE IF ~ExistingFile(openFiles, file.path)
       THEN /\ contentReads' = contentReads \cup
                   {[id |-> readCount + 1, node |-> file, from |-> loadedArchive[1], line |-> line]}
            /\ readCount' = readCount + 1
            /\ UNCHANGED <<highlightLine, highlightFor, clearTimers, revealed>>
       ELSE /\ highlightLine' = line
            /\ highlightFor' = file.path
            /\ clearTimers' = clearTimers + 1
            /\ revealed' = RevealAfter(line, file.path, line # highlightLine, activeTab)
            /\ UNCHANGED <<contentReads, readCount>>
    /\ UNCHANGED <<loadedArchive, archiveFile, pageTree, openFiles, isLoading, uploadError,
                   loads, loadCount, tabs, activeTab, editors>>
    /\ lastSelected' = <<>>
    /\ closedTabs' = closedTabs \ {file.path}
    /\ UNCHANGED <<parseVars, scanVars, searchVars, readVars, formatVars>>

\* getFileContent settles and the handler runs to its end (page.tsx lines
\* 61-68 and 94-111): the file is appended whether the read resolved or
\* not, and a line given by the search is requested.
ContentSettles(read) ==
    /\ read \in contentReads
    /\ contentReads' = contentReads \ {read}
    /\ openFiles' = Append(openFiles,
          OpenFile(read.node,
                   IF ContentOf(read.from, read.node.path).ok
                   THEN ContentOf(read.from, read.node.path).content
                   ELSE ErrorContent,
                   read.from))
    /\ IF read.line # 0
       THEN /\ highlightLine' = read.line
            /\ highlightFor' = read.node.path
            /\ clearTimers' = clearTimers + 1
       ELSE UNCHANGED <<highlightLine, highlightFor, clearTimers>>
    /\ IF EditorShown
       THEN /\ tabs' = FilesToTabs(openFiles')
            /\ activeTab' = LastTabId(openFiles', activeTab)
            /\ revealed' = RevealAfter(highlightLine', highlightFor', highlightLine' # highlightLine,
                                        activeTab')
       ELSE UNCHANGED <<tabs, activeTab, revealed>>
    /\ UNCHANGED <<loadedArchive, archiveFile, pageTree, isLoading, uploadError, loads,
                   loadCount, readCount, editors>>
    /\ lastSelected' = <<>>
    /\ UNCHANGED closedTabs
    /\ UNCHANGED <<parseVars, scanVars, searchVars, readVars, formatVars>>

\* page.tsx line 110: the timeout set with a line clears the request
ClearHighlight ==
    /\ clearTimers > 0
    /\ clearTimers' = clearTimers - 1
    /\ highlightLine' = 0
    /\ highlightFor' = <<>>
    /\ UNCHANGED <<loadedArchive, archiveFile, pageTree, openFiles, isLoading, uploadError,
                   loads, contentReads, loadCount, readCount, tabs, activeTab,
                   editors, revealed>>
    /\ lastSelected' = <<>>
    /\ UNCHANGED closedTabs
    /\ UNCHANGED <<parseVars, scanVars, searchVars, readVars, formatVars>>

\* onValueChange={setActiveTab} (tabbed-editor.tsx lines 259-261): a click
\* on the trigger of a tab
TabClick(tabId) ==
    /\ tabId \in TabIds(tabs)
    /\ activeTab' = tabId
    /\ revealed' = RevealAfter(highlightLine, highlightFor, FALSE, tabId)
    /\ UNCHANGED <<loadedArchive, archiveFile, pageTree, openFiles, isLoading, highlightLine, highlightFor,
                   uploadError, loads, contentReads, clearTimers, loadCount, readCount,
                   tabs, editors>>
    /\ lastSelected' = <<>>
    /\ UNCHANGED closedTabs
    /\ UNCHANGED <<parseVars, scanVars, searchVars, readVars, formatVars>>

\* prevTabs.filter((tab) => tab.id !== tabId)
FilterTabs(ts, tabId) == SelectSeq(ts, LAMBDA tab : tab.id # tabId)

\* prevTabs.findIndex((tab) => tab.id === tabId), counted from 1
FindIndex(ts, tabId) == CHOOSE k \in 1..Len(ts) : ts[k].id = tabId /\ \A h \in 1..(k - 1) : ts[h].id # tabId

Min(a, b) == IF a < b THEN a ELSE b

\* lines 176-185 of tabbed-editor.tsx: the active tab after closing tabId
KeepsActive(ts, active, tabId) == active
ActiveAfterClose(ts, active, tabId) ==
    LET newTabs == FilterTabs(ts, tabId)
    IN  IF active = tabId /\ Len(newTabs) > 0
        THEN newTabs[Min(FindIndex(ts, tabId), Len(newTabs))].id
        ELSE IF Len(newTabs) = 0 THEN <<>>
        ELSE active

\* closeTab (tabbed-editor.tsx lines 172-193)
closeTab(tabId) ==
    /\ tabId \in TabIds(tabs)
    /\ tabs' = FilterTabs(tabs, tabId)
    /\ activeTab' = ActiveAfterClose(tabs, activeTab, tabId)
    /\ editors' = editors \ {tabId}
    /\ revealed' = IF activeTab' # activeTab
                   THEN Reveal(revealed, highlightLine, highlightFor, activeTab', editors')
                   ELSE revealed
    /\ UNCHANGED <<loadedArchive, archiveFile, pageTree, openFiles, isLoading, highlightLine, highlightFor,
                   uploadError, loads, contentReads, clearTimers, loadCount, readCount>>
    /\ lastSelected' = <<>>
    /\ closedTabs' = closedTabs \cup {tabId}
    /\ UNCHANGED <<parseVars, scanVars, searchVars, readVars, formatVars>>

\* handleEditorDidMount (tabbed-editor.tsx lines 207-224): the editor of a
\* tab finishes mounting
handleEditorDidMount(tabId) ==
    /\ tabId \in TabIds(tabs)
    /\ tabId \notin editors
    /\ editors' = editors \cup {tabId}
    /\ UNCHANGED <<loadedArchive, archiveFile, pageTree, openFiles, isLoading, highlightLine, highlightFor,
                   uploadError, loads, contentReads, clearTimers, loadCount, readCount,
                   tabs, activeTab, revealed>>
    /\ lastSelected' = <<>>
    /\ UNCHANGED closedTabs
    /\ UNCHANGED <<parseVars, scanVars, searchVars, readVars, formatVars>>

NextPage ==
    \/ \E file \in BrowsedFiles : Offer(file)
    \/ \E load \in loads : LoadSettles(load)
    \/ \E load \in loads : ParseSettles(load)
    \/ UploadNewFile
    \/ \E node \in FileNodes : handleFileTreeSelect(node)
    \/ \E file \in FileNodes : \E line \in MatchLines(file) : handleSearchFileSelect(file, line)
    \/ \E read \in contentReads : ContentSettles(read)
    \/ ClearHighlight
    \/ \E tabId \in TabIds(tabs) : TabClick(tabId)
    \/ \E tabId \in TabIds(tabs) : closeTab(tabId)
    \/ \E tabId \in TabIds(tabs) : handleEditorDidMount(tabId)

SpecPage == InitPage /\ [][NextPage]_vars


(***************************************************************************)
(* Loading an archive.                                                     *)
(***************************************************************************)
\* The handleFileSelect call has run to its end in this step.
Finishes(load) ==
    /\ load.at \in {"loadAsync", "parseArchive"}
    /\ \E done \in loads' : done.id = load.id /\ done.at \in {"returned", "caught"}

\* C21: a load that fails (either loadAsync rejects) leaves the loaded
\* archive, the archive file, the file tree and the open files as they were
\* and ends with the loading flag false; the four are replaced, together and
\* by the new archive with no open files, only by a load whose two steps
\* succeeded.
C21_FailedLoadKeepsState ==
    [][ /\ \A load \in loads :
              Finishes(load) =>
                 /\ isLoading' = FALSE
                 /\ IF load.file.readable = "always"
                    THEN /\ loadedArchive' = <<load.file>>
                         /\ archiveFile' = <<load.file>>
                         /\ pageTree' = ParseArchive(load.file.entries)
                         /\ openFiles' = <<>>
                    ELSE UNCHANGED <<loadedArchive, archiveFile, pageTree, openFiles>>
        /\ (loadedArchive' # loadedArchive /\ loadedArchive' # <<>>)
              => \E load \in loads : Finishes(load) /\ load.file.readable = "always"
      ]_vars

\* A load has failed while a file read from the archive before was still
\* listed as open.
C21_Witness ==
    /\ \E load \in loads : load.at = "caught"
    /\ openFiles # <<>>
    /\ loadedArchive = <<>>
    /\ ~isLoading


(***************************************************************************)
(* Content reads and the archive they were issued against.                 *)
(***************************************************************************)
\* C22: every open file holds a node and a content of the archive that is
\* loaded now: a read issued against an archive that has since been replaced
\* or reset adds nothing to the open files.
C22_OpenFilesOfLoadedArchive ==
    \A k \in 1..Len(openFiles) :
        /\ loadedArchive # <<>>
        /\ openFiles[k].from = loadedArchive[1]

\* A read of the previous archive settles after the next archive is loaded.
C22_StaleReadReached ==
    /\ loadedArchive # <<>>
    /\ \E k \in 1..Len(openFiles) :
          /\ openFiles[k].from # loadedArchive[1]
          /\ openFiles[k].file \notin AllNodes(pageTree)


(***************************************************************************)
(* FileUpload: every file the user can offer, and the load it starts.      *)
(***************************************************************************)
NextUpload ==
    \/ \E file \in OfferedFiles : Offer(file)
    \/ \E load \in loads : LoadSettles(load)
    \/ \E load \in loads : ParseSettles(load)
    \/ UploadNewFile

SpecUpload == InitPage /\ [][NextUpload]_vars

\* The name ends with the extension, whatever the case of its letters.
EndsWith(name, ext) ==
    /\ Len(name) >= Len(ext)
    /\ toLowerCase(SubSeq(name, Len(name) - Len(ext) + 1, Len(name))) = ext

HasArchiveExtension(name) ==
    \/ EndsWith(name, <<".", "z", "i", "p">>)
    \/ EndsWith(name, <<".", "j", "a", "r">>)

\* C23: the load handler is called only with files whose name has the
\* extension .zip or .jar (in any case) and whose size is within the 100MB
\* ceiling.
C23_OnlyArchivesHandedOver ==
    \A load \in loads :
        /\ HasArchiveExtension(load.file.name)
        /\ load.file.size <= MaxUploadSize

\* The name after its last dot, or the whole name when it has no dot, is zip
\* or jar in any case.
LastPartIsArchive(name) ==
    \E word \in { <<"z", "i", "p">>, <<"j", "a", "r">> } :
        \/ toLowerCase(name) = word
        \/ EndsWith(name, <<".">> \o word)

\* What validateFile does decide: a file is handed over, and the error
\* cleared, when the last dot-separated part of its name is zip or jar and its
\* size is at most 100MB; any other file sets an error message, starts no load
\* and leaves the loaded state alone.
C23_ValidationByLastPart ==
    [][ \A file \in OfferedFiles :
            Offer(file) =>
               IF LastPartIsArchive(file.name) /\ file.size <= MaxUploadSize
               THEN /\ uploadError' = <<>>
                    /\ \E load \in loads' \ loads : load.file = file /\ load.at = "loadAsync"
               ELSE /\ uploadError' \in {<<ExtensionMessage>>, <<SizeMessage>>}
                    /\ UNCHANGED <<loads, loadCount, isLoading, loadedArchive, archiveFile,
                                   pageTree, openFiles>>
      ]_vars

\* A rejected file has set the error, and an accepted one has cleared it.
C23_RejectedReached == uploadError = <<SizeMessage>> /\ loads = {}

C23_AcceptedAfterError ==
    /\ uploadError = <<>>
    /\ \E load \in loads : load.at = "loadAsync" /\ load.id = 1 /\ HasArchiveExtension(load.file.name)


(***************************************************************************)
(* Navigation from a search match.                                         *)
(***************************************************************************)
\* C24: the line of a clicked match is revealed in the editor of the file the
\* match is in, never in the editor of another tab.
C24_RevealedInMatchedFile ==
    \A k \in 1..Len(revealed) : revealed[k].tab = revealed[k].for

\* C24: while the line of a clicked match is requested, the file of the
\* match is open and is the active tab.
C24_MatchedFileActive ==
    (highlightLine # 0 /\ EditorShown /\ highlightFor \in TabIds(tabs))
        => activeTab = highlightFor

\* The match clicked is in a file that is open in a tab that is not active.
C24_OpenInactiveReached ==
    /\ highlightLine # 0
    /\ highlightFor \in TabIds(tabs)
    /\ activeTab # highlightFor
    /\ revealed # <<>>
    /\ revealed[1].tab = activeTab


(***************************************************************************)
(* formatBytes on byte counts of up to MaxDigits base-1024 digits.         *)
(***************************************************************************)
MaxDigits == 5

\* The digits the counts are built from.
FormatDigits == {0, 1, 512, 1023}

\* The counts: no leading zero digit, and below 513 * 1024^(n-1) from five
\* digits on, where the quotient of the two logarithms is still rounded to
\* the right side of the next integer.
FormatInputs ==
    UNION { { b \in [1..n -> FormatDigits] :
                 /\ n > 0 => b[n] # 0
                 /\ n >= 5 => b[n] <= 512 } : n \in 0..MaxDigits }

InitFormat ==
    /\ fmtBytes \in FormatInputs
    /\ fmtPc = "ready"
    /\ fmtOut = <<>>
    /\ ParseUnused
    /\ ScanUnused
    /\ SearchUnused
    /\ ReadUnused
    /\ PageUnused

\* One call of formatBytes (tabbed-editor.tsx lines 429-435)
FormatBytesCall ==
    /\ fmtPc = "ready"
    /\ fmtPc' = "returned"
    /\ fmtOut' = formatBytes(fmtBytes)
    /\ UNCHANGED fmtBytes
    /\ UNCHANGED <<parseVars, scanVars, searchVars, readVars, pageVars>>

NextFormat == FormatBytesCall

SpecFormat == InitFormat /\ [][NextFormat]_vars

\* The text is a number with at most two decimals: digits, optionally
\* followed by a dot and one or two digits.
IsDigits(text) == Len(text) > 0 /\ \A k \in 1..Len(text) : IndexIn(text[k], Digits) > 0

AtMostTwoDecimals(text) ==
    \/ IsDigits(text)
    \/ \E d \in 1..Len(text) :
          /\ text[d] = "."
          /\ IsDigits(SubSeq(text, 1, d - 1))
          /\ IsDigits(SubSeq(text, d + 1, Len(text)))
          /\ Len(text) - d <= 2

\* The value of a text of digits
RECURSIVE DigitsValue(_)
DigitsValue(text) ==
    IF text = <<>> THEN 0
    ELSE 10 * DigitsValue(SubSeq(text, 1, Len(text) - 1)) + (IndexIn(text[Len(text)], Digits) - 1)

\* The digits before the dot, or all of them
WholePart(text) ==
    IF \E d \in 1..Len(text) : text[d] = "."
    THEN SubSeq(text, 1, (CHOOSE d \in 1..Len(text) : text[d] = ".") - 1)
    ELSE text

\* C25: the text returned for a byte count is the count scaled by a power of
\* 1024, with at most two decimals, a space, and the unit of that power: one
\* of Bytes, KB, MB, GB.
C25_ScaledWithUnit ==
    (fmtPc = "returned" /\ fmtBytes # <<>>) =>
        \E i \in 1..Len(sizes) :
            LET number == SubSeq(fmtOut, 1, Len(fmtOut) - Len(sizes[i]) - 1)
            IN  /\ Len(fmtOut) > Len(sizes[i]) + 1
                /\ SubSeq(fmtOut, Len(fmtOut) - Len(sizes[i]), Len(fmtOut)) = <<" ">> \o sizes[i]
                /\ AtMostTwoDecimals(number)
                /\ Len(fmtBytes) = i
                /\ DigitsValue(WholePart(number)) \in {fmtBytes[i], fmtBytes[i] + 1}

\* C25: formatBytes(0) is "0 Bytes" and formatBytes(1536) is "1.5 KB"
C25_Examples ==
    fmtPc = "returned" =>
        /\ fmtBytes = <<>> => fmtOut = <<"0", " ", "B", "y", "t", "e", "s">>
        /\ fmtBytes = <<512, 1>> => fmtOut = <<"1", ".", "5", " ", "K", "B">>

\* Below a terabyte the claim holds.
C25_BelowTerabyte == Len(fmtBytes) <= Len(sizes) => C25_ScaledWithUnit

C25_ExamplesReached ==
    /\ fmtPc = "returned"
    /\ fmtBytes = <<512, 1>>

\* One terabyte is formatted as "1 undefined"
C25_TerabyteReached ==
    /\ fmtPc = "returned"
    /\ fmtBytes = <<0, 0, 0, 0, 1>>
    /\ fmtOut = <<"1", " ">> \o Undefined


(***************************************************************************)
(* The open files and their tabs.                                          *)
(***************************************************************************)
\* C26: no two entries of the open files have the same path.
C26_OneEntryPerPath ==
    \A j, k \in 1..Len(openFiles) :
        openFiles[j].file.path = openFiles[k].file.path => j = k

\* The file was selected a second time while its first read was pending:
\* it is listed twice, both times read from the loaded archive.
C26_SelectedTwiceReached ==
    /\ loadedArchive # <<>>
    /\ Len(openFiles) = 2
    /\ openFiles[1] = openFiles[2]
    /\ openFiles[1].from = loadedArchive[1]
    /\ Len(tabs) = 2
    /\ tabs[1].id = tabs[2].id


\* C27: a file that is open in a tab and is selected in the tree becomes the
\* active tab.
C27_SelectedOpenFileActive ==
    (lastSelected # <<>> /\ lastSelected \in TabIds(tabs)) => activeTab = lastSelected

\* C27: selecting in the tree a file that is listed in the open files starts
\* no read.
C27_NoSecondRead ==
    [][ (lastSelected' # <<>> /\ ExistingFile(openFiles, lastSelected'))
            => UNCHANGED <<readCount, contentReads, openFiles>> ]_vars

\* The file selected is open in a tab behind the active one.
C27_OpenInactiveSelected ==
    /\ lastSelected # <<>>
    /\ Len(tabs) = 2
    /\ tabs[1].id = lastSelected
    /\ activeTab = tabs[2].id
    /\ activeTab # lastSelected
    /\ contentReads = {}

\* C28: a tab the user closed, and did not select again, is not among the
\* tabs.
C28_ClosedStaysClosed == closedTabs \cap TabIds(tabs) = {}

\* C28: a file selected in the tree is being read or has a tab, also when
\* its tab had been closed before.
C28_ReselectReopens ==
    lastSelected # <<>> =>
        \/ lastSelected \in TabIds(tabs)
        \/ \E read \in contentReads : read.node.path = lastSelected

\* Opening another file has brought the closed tab back.
C28_BroughtBackReached ==
    /\ Len(openFiles) = 2
    /\ closedTabs = {openFiles[1].file.path}
    /\ openFiles[1].file.path # openFiles[2].file.path
    /\ TabIds(tabs) = {openFiles[1].file.path, openFiles[2].file.path}

\* C29: whenever there is a tab the active tab is one of the tabs; closing
\* the active tab activates the tab that takes its position, or the last tab
\* when the closed one was last; closing another tab leaves the active tab as
\* it is; closing the only tab leaves no active tab.
C29_ActiveTabIsATab ==
    [][ /\ tabs' # <<>> => activeTab' \in TabIds(tabs')
        /\ \A tabId \in TabIds(tabs) :
              closeTab(tabId) =>
                 LET position == CHOOSE k \in 1..Len(tabs) :
                                    tabs[k].id = tabId /\ \A h \in 1..(k - 1) : tabs[h].id # tabId
                 IN  /\ tabId \notin TabIds(tabs')
                     /\ tabs' = <<>> => activeTab' = <<>>
                     /\ (tabs' # <<>> /\ activeTab # tabId) => activeTab' = activeTab
                     /\ (tabs' # <<>> /\ activeTab = tabId) =>
                           activeTab' = IF position <= Len(tabs')
                                        THEN tabs'[position].id
                                        ELSE tabs'[Len(tabs')].id
      ]_vars

\* The only tab was closed: no tab, and no active tab.
C29_OnlyTabClosed ==
    /\ openFiles # <<>>
    /\ closedTabs # {}
    /\ tabs = <<>>
    /\ activeTab = <<>>


(***************************************************************************)
(* The searching indicator.                                                *)
(***************************************************************************)
\* C30: the indicator is true exactly while some performSearch call that
\* started scanning has not finished.
C30_SearchingWhileScanning == isSearching = (searches # {})

\* The older of two overlapping searches has finished, the newer one is
\* still reading, and the indicator is off.
C30_OlderFinishedFirst ==
    /\ Len(searchLog) = 2
    /\ Cardinality(searches) = 1
    /\ \A s \in searches : s.id = 2
    /\ ~isSearching

=============================================================================
